---- MODULE Spec2Model ----
(***************************************************************************)
(* TickTick command-line client: the official-interface client            *)
(* (TickTickV1), the internal-interface client (TickTickV2), the unified  *)
(* dispatcher (TickTickClient) and the CLI subcommands built on them.     *)
(*                                                                         *)
(* A process is modelled by the record of everything its code reads and   *)
(* writes (the two client objects, the requests it has sent with the      *)
(* response each received, its standard output and error stream, a raised *)
(* SystemExit, the value an operation returned) together with the remote  *)
(* task store.  Each function of the source is an operator from such a    *)
(* record to the record after the call; what the remote service answers   *)
(* is drawn by the calling action and carried in the field "oracle".      *)
(*                                                                         *)
(* Text that the code transforms (lower(), replace(), "in") is a sequence *)
(* of one-character strings; identifiers and tokens are plain strings.    *)
(***************************************************************************)
EXTENDS Integers, Sequences, FiniteSets, TLC

VARIABLES
    environ,    \* os.environ: TICKTICK_ACCESS_TOKEN / _USERNAME / _PASSWORD
    pc,         \* "start" | "ready" (dispatcher constructed) | "exited"
    v1,         \* the TickTickV1 object
    v2,         \* the TickTickV2 object (fields exist from construction on)
    client,     \* the TickTickClient object: which of self.v1 / self.v2 is set
    requests,   \* every HTTP request sent so far, with the response received
    stderr,     \* what was written to the error stream
    stdout,     \* what was written to standard output
    exit_code,  \* process exit status, Running while the process is alive
    ret,        \* <<value>> returned by the last call, <<>> if it raised
    calls,      \* the calls made so far: operation, arguments, and the
                \* position in `requests` of the first request it could send
    remote      \* the backend's task store: task id -> task

vars == <<environ, pc, v1, v2, client, requests, stderr, stdout, exit_code,
          ret, calls, remote>>

-----------------------------------------------------------------------------
(* Bounds *)

MaxOps == 1          \* calls a library process makes on its dispatcher

-----------------------------------------------------------------------------
(* Python values *)

NoneV == "None"                      \* None, where a str is expected
Falsy(x) == x = NoneV \/ x = ""      \* `not x` for a str | None
Running == 0 - 1                     \* no SystemExit raised / process alive

EmptyDict == [k \in {} |-> NoneV]    \* {}

\* x = value; body(x): the value is computed once, as an assignment does
Let(value, body(_)) == CHOOSE y \in {body(x) : x \in {value}} : TRUE

\* d.get(k, default)
Get(d, k, default) == IF k \in DOMAIN d THEN d[k] ELSE default

\* a.update(b): b's keys win, a's other keys stay
DictUpdate(a, b) ==
    [k \in (DOMAIN a) \cup (DOMAIN b) |-> IF k \in DOMAIN b THEN b[k] ELSE a[k]]

\* d[k] = v
DictSet(d, k, v) == DictUpdate(d, [x \in {k} |-> v])

\* str.lower(), on the letters the model uses
LowerChar(c) ==
    CASE c = "W" -> "w"
      [] c = "K" -> "k"
      [] c = "A" -> "a"
      [] OTHER -> c

lower(s) == [i \in 1..Len(s) |-> LowerChar(s[i])]

\* q in s (substring)
Contains(q, s) ==
    \E i \in 0..(Len(s) - Len(q)) : SubSeq(s, i + 1, i + Len(q)) = q

\* s.replace("\\n", "\n"): backslash followed by n becomes a newline
RECURSIVE replace_nl(_)
replace_nl(s) ==
    IF Len(s) = 0 THEN <<>>
    ELSE IF Len(s) >= 2 /\ s[1] = "\\" /\ s[2] = "n"
         THEN <<"\n">> \o replace_nl(SubSeq(s, 3, Len(s)))
         ELSE <<s[1]>> \o replace_nl(Tail(s))

\* urllib.parse.quote(s, safe=""), on the identifiers the model uses
quote(s) == IF s = "a/b" THEN "a%2Fb" ELSE s

\* what the server makes of a path segment
unquote(s) == IF s = "a%2Fb" THEN "a/b" ELSE s

\* the table with consecutive ordinals
PRIORITY_MAP_consecutive == [none |-> 0, low |-> 1, medium |-> 2, high |-> 3]

PRIORITY_MAP == [none |-> 0, low |-> 1, medium |-> 3, high |-> 5]

PRIORITY_REVERSE == (0 :> "none") @@ (1 :> "low") @@ (3 :> "medium") @@ (5 :> "high")

-----------------------------------------------------------------------------
(* The remote service *)

ProjectIds == {"p1", "a/b"}
TaskIds == {"t1", "t2", "t3"}

V1Statuses == {200, 500}        \* what the oracle may answer a V1 request
V2Statuses == {200, 500}        \* ... and a V2 request after login
LoginErrors == {401, 500}       \* HTTP errors of a login endpoint

Is2xx(status) == status >= 200 /\ status < 300

NoErr == [code |-> 0, body |-> NoneV]

RECURSIVE SeqsUpTo(_, _)
SeqsUpTo(S, n) ==
    IF n = 0 THEN {<<>>}
    ELSE LET shorter == SeqsUpTo(S, n - 1)
         IN  shorter \cup {Append(q, x) : q \in {r \in shorter : Len(r) = n - 1}, x \in S}

SeqsOfLen(S, n) == {q \in SeqsUpTo(S, n) : Len(q) = n}

\* the project lists GET /project may return: some of the projects, in any
\* order, none twice
ProjectLists ==
    {[i \in 1..Len(q) |-> [id |-> q[i], name |-> "Work"]] :
        q \in {r \in SeqsUpTo(ProjectIds, Cardinality(ProjectIds)) :
                  \A i, j \in 1..Len(r) : r[i] = r[j] => i = j}}

\* stored tasks; the first has every field the update overlay can touch
Task1 ==
    [id |-> "t1", projectId |-> "p1", title |-> <<"A">>, content |-> <<"k">>,
     status |-> 0, attachments |-> <<"file1">>]
Task2 == [id |-> "t2", projectId |-> "p1", title |-> <<"W", "k">>, status |-> 2]
Task3 == [id |-> "t3", projectId |-> "a/b", desc |-> <<"a", "k">>, status |-> 0]

RemoteStores == { ("t1" :> Task1) @@ ("t2" :> Task2) @@ ("t3" :> Task3) }

TaskOrder == <<"t1", "t2", "t3">>

RECURSIVE StoredTasks(_, _)
\* the stored tasks, in id order, from position i on
StoredTasks(store, i) ==
    IF i > Len(TaskOrder) THEN <<>>
    ELSE (IF TaskOrder[i] \in DOMAIN store THEN <<store[TaskOrder[i]]>> ELSE <<>>)
         \o StoredTasks(store, i + 1)

TasksOfProject(store, pid) ==
    SelectSeq(StoredTasks(store, 1), LAMBDA t : t.projectId = pid)

\* what the official interface answers to a request, given the status the
\* oracle drew for it; a missing resource is a 404 whatever was drawn
V1Serve(store, method, path, body, status, projects) ==
    LET ok(v) == [status |-> status, body |-> v, text |-> ""]
        fail(code) == [status |-> code, body |-> <<>>, text |-> "error"]
        pid == IF Len(path) >= 2 THEN unquote(path[2]) ELSE NoneV
        tid == IF Len(path) >= 4 THEN unquote(path[4]) ELSE NoneV
        found == tid \in DOMAIN store /\ store[tid].projectId = pid
    IN  IF ~Is2xx(status) THEN fail(status)
        ELSE IF path = <<"project">> /\ method = "GET" THEN ok(<<projects>>)
        ELSE IF path = <<"project">> /\ method = "POST" THEN ok(body)
        ELSE IF path = <<"task">> /\ method = "POST" THEN ok(body)
        ELSE IF path[1] = "task" /\ method = "POST" THEN ok(body)
        ELSE IF pid \notin ProjectIds THEN fail(404)
        ELSE IF Len(path) = 2 /\ method = "GET"
             THEN ok(<<[id |-> pid, name |-> "Work"]>>)
        ELSE IF Len(path) = 2 /\ method = "POST" THEN ok(body)
        ELSE IF Len(path) = 2 /\ method = "DELETE" THEN ok(<<>>)
        ELSE IF Len(path) = 3 /\ path[3] = "data" /\ method = "GET"
             THEN LET ts == TasksOfProject(store, pid)
                      proj == [id |-> pid, name |-> "Work"]
                  IN  ok(<<IF ts = <<>> THEN [project |-> proj]
                           ELSE [project |-> proj, tasks |-> ts]>>)
        ELSE IF ~found THEN fail(404)
        ELSE IF Len(path) = 4 /\ method = "GET" THEN ok(<<store[tid]>>)
        ELSE ok(<<>>)      \* DELETE task, POST .../complete: empty body

\* what a successful request does to the task store: the update endpoint
\* stores the submitted task as it is
V1Store(store, method, path, body) ==
    LET tid == IF Len(path) >= 4 THEN unquote(path[4]) ELSE NoneV
    IN  IF Len(path) = 2 /\ path[1] = "task" /\ method = "POST"
             /\ body # <<>> /\ unquote(path[2]) \in TaskIds
        THEN (unquote(path[2]) :> body[1]) @@ store
        ELSE IF Len(path) = 4 /\ method = "DELETE"
        THEN [t \in (DOMAIN store) \ {tid} |-> store[t]]
        ELSE IF Len(path) = 5 /\ method = "POST"
        THEN [store EXCEPT ![tid] = DictSet(@, "status", 2)]
        ELSE store

\* the next answer the oracle holds; a request beyond those drawn is refused
NextStatus(s) == IF s.oracle.st = <<>> THEN 500 ELSE Head(s.oracle.st)
NextLogin(s) ==
    IF s.oracle.login = <<>>
    THEN [status |-> 500, body |-> <<>>, text |-> "error", set_cookie |-> <<>>]
    ELSE Head(s.oracle.login)
Rest(q) == IF q = <<>> THEN <<>> ELSE Tail(q)

-----------------------------------------------------------------------------
(* Shared helpers *)

\* print(json.dumps({"success": False, "error": msg}), file=sys.stderr); sys.exit(1)
_error_exit(s, msg) ==
    [s EXCEPT !.stderr = Append(@, [format |-> "json",
                                    payload |-> [success |-> FALSE, error |-> msg]]),
              !.exit = 1]

\* print(json.dumps(data, ...)) on standard output
_json_output(s, data) ==
    [s EXCEPT !.stdout = Append(@, [format |-> "json", payload |-> <<data>>])]

Raised(s) == s.exit # Running

-----------------------------------------------------------------------------
(* TickTickV1: the official interface *)

V1_init(s, access_token) ==
    IF Falsy(access_token)
    THEN _error_exit(s, [text |-> "TICKTICK_ACCESS_TOKEN not set", err |-> NoErr])
    ELSE [s EXCEPT !.v1 = [present |-> TRUE, access_token |-> access_token]]

\* _request without its except branch: an HTTP error is swallowed and the
\* caller goes on with an empty result
V1_request_lenient(s, method, path, data) ==
    LET body == IF DOMAIN data = {} THEN <<>> ELSE <<data>>
    IN  Let(V1Serve(s.remote, method, path, body, NextStatus(s), s.oracle.projects),
            LAMBDA resp :
        LET req == [api |-> "v1", method |-> method, path |-> path, body |-> body,
                    headers |-> [Authorization |-> <<"Bearer", s.v1.access_token>>],
                    resp |-> resp]
            s1  == [s EXCEPT !.requests = Append(@, req),
                             !.oracle.st = Rest(@),
                             !.remote = IF Is2xx(resp.status)
                                        THEN V1Store(@, method, path, body) ELSE @]
        IN  [s1 EXCEPT !.ret = IF resp.body = <<>> THEN EmptyDict ELSE resp.body[1]])

V1_request(s, method, path, data) ==
    LET body == IF DOMAIN data = {} THEN <<>> ELSE <<data>>
    IN  Let(V1Serve(s.remote, method, path, body, NextStatus(s), s.oracle.projects),
            LAMBDA resp :
        LET req == [api |-> "v1", method |-> method, path |-> path, body |-> body,
                    headers |-> [Authorization |-> <<"Bearer", s.v1.access_token>>],
                    resp |-> resp]
            s1  == [s EXCEPT !.requests = Append(@, req),
                             !.oracle.st = Rest(@),
                             !.remote = IF Is2xx(resp.status)
                                        THEN V1Store(@, method, path, body) ELSE @]
        IN  IF Is2xx(resp.status)
            THEN [s1 EXCEPT !.ret = IF resp.body = <<>> THEN EmptyDict
                                    ELSE resp.body[1]]
            ELSE _error_exit(s1, [text |-> "V1 API error",
                                  err |-> [code |-> resp.status, body |-> resp.text]]))

V1_get_task(s, project_id, task_id) ==
    V1_request(s, "GET", <<"project", quote(project_id), "task", quote(task_id)>>, EmptyDict)

V1_create_task(s, task_data) == V1_request(s, "POST", <<"task">>, task_data)

V1_update_task(s, task_id, task_data) ==
    V1_request(s, "POST", <<"task", quote(task_id)>>, task_data)

V1_complete_task(s, project_id, task_id) ==
    V1_request(s, "POST",
               <<"project", quote(project_id), "task", quote(task_id), "complete">>,
               EmptyDict)

V1_delete_task(s, project_id, task_id) ==
    V1_request(s, "DELETE", <<"project", quote(project_id), "task", quote(task_id)>>,
               EmptyDict)

V1_list_projects(s) == V1_request(s, "GET", <<"project">>, EmptyDict)

V1_get_project(s, project_id) ==
    V1_request(s, "GET", <<"project", quote(project_id)>>, EmptyDict)

V1_get_project_data(s, project_id) ==
    V1_request(s, "GET", <<"project", quote(project_id), "data">>, EmptyDict)

V1_create_project(s, project_data) == V1_request(s, "POST", <<"project">>, project_data)

V1_update_project(s, project_id, project_data) ==
    V1_request(s, "POST", <<"project", quote(project_id)>>, project_data)

V1_delete_project(s, project_id) ==
    V1_request(s, "DELETE", <<"project", quote(project_id)>>, EmptyDict)

-----------------------------------------------------------------------------
(* TickTickV2: the internal interface *)

\* what a login endpoint may answer: an HTTP error, or a JSON object with a
\* token (with or without a _csrf_token cookie) or without one
WithToken == [token |-> "sess1", inboxId |-> "inbox1"]
WithoutToken == [username |-> "u"]
CsrfCookies == <<[name |-> "SESSION", value |-> "x"],
                 [name |-> "_csrf_token", value |-> "csrf1"]>>
LoginResponses ==
    {[status |-> c, body |-> <<>>, text |-> "error", set_cookie |-> <<>>] :
        c \in LoginErrors}
    \cup {[status |-> 200, body |-> <<WithToken>>, text |-> "",
           set_cookie |-> CsrfCookies],
          [status |-> 200, body |-> <<WithToken>>, text |-> "", set_cookie |-> <<>>],
          [status |-> 200, body |-> <<WithoutToken>>, text |-> "",
           set_cookie |-> CsrfCookies]}

\* the account snapshot GET /batch/check/0 returns
SyncSnapshot(store, projects) ==
    [inboxId |-> "inbox1", projectProfiles |-> projects, projectGroups |-> <<>>,
     tags |-> <<[name |-> <<"w">>, label |-> <<"W">>]>>,
     syncTaskBean |-> [update |-> StoredTasks(store, 1)]]

V2Serve(store, method, path, body, status, projects) ==
    LET ok(v) == [status |-> status, body |-> v, text |-> ""]
    IN  IF ~Is2xx(status) THEN [status |-> status, body |-> <<>>, text |-> "error"]
        ELSE IF path = <<"batch", "check", "0">>
        THEN ok(<<SyncSnapshot(store, projects)>>)
        ELSE IF path[Len(path)] = "completed"
        THEN ok(<<SelectSeq(StoredTasks(store, 1), LAMBDA t : Get(t, "status", 0) = 2)>>)
        ELSE IF path[1] = "batch" THEN ok(<<>>)
        ELSE ok(<<[timeZone |-> "Asia/Taipei"]>>)

x_device(s) == [platform |-> "web", os |-> "OS X", id |-> s.v2.device_id]

\* _headers without the session cookie
V2_headers_no_cookie(s) ==
    [UserAgent |-> "Chrome/131", xdevice |-> x_device(s),
     ContentType |-> "application/json",
     Accept |-> "application/json, text/plain, */*"]

\* The Cookie header is the sequence of its name=value pairs.
V2_headers(s) ==
    LET h == [UserAgent |-> "Chrome/131", xdevice |-> x_device(s),
              ContentType |-> "application/json",
              Accept |-> "application/json, text/plain, */*"]
    IN  IF ~Falsy(s.v2.session_token)
        THEN DictSet(h, "Cookie", <<[name |-> "t", value |-> s.v2.session_token]>>)
        ELSE h

V2_request(s, method, path, data, params) ==
    LET body == IF DOMAIN data = {} THEN <<>> ELSE <<data>>
    IN  Let(V2Serve(s.remote, method, path, body, NextStatus(s), s.oracle.projects),
            LAMBDA resp :
        LET req == [api |-> "v2", method |-> method, path |-> path, params |-> params,
                    body |-> body, headers |-> V2_headers(s), resp |-> resp]
            s1  == [s EXCEPT !.requests = Append(@, req), !.oracle.st = Rest(@)]
        IN  IF Is2xx(resp.status)
            THEN [s1 EXCEPT !.ret = IF resp.body = <<>> THEN EmptyDict
                                    ELSE resp.body[1]]
            ELSE _error_exit(s1, [text |-> "V2 API error",
                                  err |-> [code |-> resp.status, body |-> resp.text]]))

\* the endpoint list in the other order
endpoints_swapped == <<"signin", "signon">>

endpoints == <<"signon", "signin">>

RECURSIVE csrf_from_cookies(_, _)
\* for header in Set-Cookie: if "_csrf_token=" in header: csrf_token = its value
csrf_from_cookies(headers, current) ==
    IF headers = <<>> THEN current
    ELSE csrf_from_cookies(Tail(headers),
                           IF Head(headers).name = "_csrf_token"
                           THEN Head(headers).value ELSE current)

RECURSIVE login_loop_first_error(_, _, _, _)
\* _login keeping the first HTTP error it met instead of the last
login_loop_first_error(s, payload, i, last_error) ==
    IF i > Len(endpoints)
    THEN _error_exit(s, [text |-> "V2 login failed (all endpoints tried)",
                         err |-> last_error])
    ELSE
      LET resp == NextLogin(s)
          req  == [api |-> "v2", method |-> "POST", path |-> <<"user", endpoints[i]>>,
                   params |-> [wc |-> "true", remember |-> "true"],
                   body |-> <<payload>>, headers |-> V2_headers(s), resp |-> resp]
      IN  Let([s EXCEPT !.requests = Append(@, req), !.oracle.login = Rest(@)],
              LAMBDA s1 :
          IF ~Is2xx(resp.status)
          THEN login_loop_first_error(s1, payload, i + 1,
                          IF last_error = NoErr
                          THEN [code |-> resp.status, body |-> resp.text]
                          ELSE last_error)
          ELSE
            LET result == resp.body[1]
            IN  Let([s1 EXCEPT
                       !.v2.csrf_token = csrf_from_cookies(resp.set_cookie, @),
                       !.v2.session_token = Get(result, "token", NoneV),
                       !.v2.inbox_id = Get(result, "inboxId", "")],
                    LAMBDA s2 :
                IF ~Falsy(s2.v2.session_token)
                THEN s2
                ELSE login_loop_first_error(s2, payload, i + 1, last_error)))

RECURSIVE login_loop(_, _, _, _)
\* the for loop of _login from endpoint i on, and the _error_exit after it
login_loop(s, payload, i, last_error) ==
    IF i > Len(endpoints)
    THEN _error_exit(s, [text |-> "V2 login failed (all endpoints tried)",
                         err |-> last_error])
    ELSE
      LET resp == NextLogin(s)
          req  == [api |-> "v2", method |-> "POST", path |-> <<"user", endpoints[i]>>,
                   params |-> [wc |-> "true", remember |-> "true"],
                   body |-> <<payload>>, headers |-> V2_headers(s), resp |-> resp]
      IN  Let([s EXCEPT !.requests = Append(@, req), !.oracle.login = Rest(@)],
              LAMBDA s1 :
          IF ~Is2xx(resp.status)
          THEN login_loop(s1, payload, i + 1,
                          [code |-> resp.status, body |-> resp.text])
          ELSE
            LET result == resp.body[1]
            IN  Let([s1 EXCEPT
                       !.v2.csrf_token = csrf_from_cookies(resp.set_cookie, @),
                       !.v2.session_token = Get(result, "token", NoneV),
                       !.v2.inbox_id = Get(result, "inboxId", "")],
                    LAMBDA s2 :
                IF ~Falsy(s2.v2.session_token)
                THEN s2
                ELSE login_loop(s2, payload, i + 1, last_error)))

V2_login(s, username, password) ==
    login_loop(s, [username |-> username, password |-> password], 1, NoErr)

V2_init(s, username, password) ==
    IF Falsy(username) \/ Falsy(password)
    THEN _error_exit(s, [text |-> "TICKTICK_USERNAME or TICKTICK_PASSWORD not set",
                         err |-> NoErr])
    ELSE Let([s EXCEPT !.v2 = [present |-> TRUE, session_token |-> NoneV,
                               csrf_token |-> NoneV, inbox_id |-> NoneV,
                               device_id |-> "65a0"]],
             LAMBDA s1 : V2_login(s1, username, password))

V2_sync(s) == V2_request(s, "GET", <<"batch", "check", "0">>, EmptyDict, EmptyDict)

HexDigits == <<"0", "1", "2", "3", "4", "5", "6", "7",
               "8", "9", "a", "b", "c", "d", "e", "f">>

RECURSIVE ToHex(_)
ToHex(n) ==
    IF n < 16 THEN <<HexDigits[n + 1]>>
    ELSE ToHex(n \div 16) \o <<HexDigits[(n % 16) + 1]>>

RECURSIVE ZeroPad(_, _)
ZeroPad(digits, width) ==
    IF Len(digits) >= width THEN digits ELSE ZeroPad(<<"0">> \o digits, width)

\* int(time.time()) is an unbounded integer: the seconds since the epoch are
\* kept as two limbs, n.hi * 65536 + n.lo with 0 <= n.lo < 65536
ToHexInt(n) ==
    IF n.hi = 0 THEN ToHex(n.lo) ELSE ToHex(n.hi) \o ZeroPad(ToHex(n.lo), 4)

\* format(n, '08x'): lowercase hexadecimal, zero-padded to at least 8 characters
format_08x(n) == ZeroPad(ToHexInt(n), 8)

\* secrets.token_hex(8): sixteen hexadecimal characters
RandomHex16 ==
    { <<"0", "f", "3", "a", "9", "9", "c", "1", "0", "0", "7", "e", "d", "2", "b", "4">> }

V2_upload_attachment(s, project_id, task_id, file_path) ==
    IF ~s.oracle.file_exists
    THEN _error_exit(s, [text |-> "file does not exist", err |-> NoErr])
    ELSE
      LET timestamp_hex == format_08x(s.oracle.now)
          random_hex    == s.oracle.rand
          attachment_id == timestamp_hex \o random_hex
          pid == quote(project_id)
          tid == quote(task_id)
          h0  == V2_headers(s)
          h1  == DictUpdate(h0, [ContentType |-> "multipart/form-data",
                                 Accept |-> "*/*"])
          headers ==
              IF ~Falsy(s.v2.csrf_token)
              THEN DictUpdate(h1,
                     [xcsrftoken |-> s.v2.csrf_token,
                      Cookie |-> <<[name |-> "t", value |-> s.v2.session_token],
                                   [name |-> "_csrf_token", value |-> s.v2.csrf_token]>>])
              ELSE h1
          status == NextStatus(s)
          resp == IF Is2xx(status)
                  THEN [status |-> status, body |-> <<[id |-> attachment_id]>>,
                        text |-> ""]
                  ELSE [status |-> status, body |-> <<>>, text |-> "error"]
          req  == [api |-> "upload", method |-> "POST",
                   path |-> <<"attachment", "upload", pid, tid, attachment_id>>,
                   params |-> EmptyDict, body |-> <<[file |-> file_path]>>,
                   headers |-> headers, resp |-> resp]
      IN  Let([s EXCEPT !.requests = Append(@, req), !.oracle.st = Rest(@)],
              LAMBDA s1 :
          IF Is2xx(resp.status)
          THEN [s1 EXCEPT !.ret = DictSet(resp.body[1], "attachmentUrl",
                                          <<"attachment", pid, tid, attachment_id>>)]
          ELSE _error_exit(s1, [text |-> "attachment upload failed",
                                err |-> [code |-> resp.status, body |-> resp.text]]))

V2_get_completed_tasks(s, project_id, limit) ==
    IF ~Falsy(project_id)
    THEN V2_request(s, "GET", <<"project", quote(project_id), "completed">>, EmptyDict,
                    [from |-> "", to |-> "", limit |-> limit])
    ELSE V2_request(s, "GET", <<"project", "all", "completed">>, EmptyDict,
                    [from |-> "", to |-> "", limit |-> limit])

\* add / update / delete are lists; an empty list leaves its key out
BatchPayload(add, update, delete) ==
    LET p1 == IF add # <<>> THEN [add |-> add] ELSE EmptyDict
        p2 == IF update # <<>> THEN DictSet(p1, "update", update) ELSE p1
    IN  IF delete # <<>> THEN DictSet(p2, "delete", delete) ELSE p2

V2_batch_task(s, add, update, delete) ==
    V2_request(s, "POST", <<"batch", "task">>, BatchPayload(add, update, delete), EmptyDict)

V2_list_tags(s) ==
    Let(V2_sync(s), LAMBDA s1 :
        IF Raised(s1) THEN s1 ELSE [s1 EXCEPT !.ret = Get(s1.ret, "tags", <<>>)])

V2_batch_tag(s, add, update, delete) ==
    V2_request(s, "POST", <<"batch", "tag">>, BatchPayload(add, update, delete), EmptyDict)

V2_get_user_settings(s) ==
    V2_request(s, "GET", <<"user", "preferences", "settings">>, EmptyDict,
               [includeWeb |-> "true"])

V2_get_user_profile(s) ==
    V2_request(s, "GET", <<"user", "profile">>, EmptyDict, EmptyDict)

-----------------------------------------------------------------------------
(* TickTickClient: the unified dispatcher *)

\* __init__ without its final `if not self.v1 and not self.v2` check
Client_init_no_check(s, access_token, username, password) ==
    LET has_v1  == ~Falsy(access_token)
        want_v2 == ~Falsy(username) /\ ~Falsy(password)
    IN  Let(IF has_v1 THEN V1_init(s, access_token) ELSE s, LAMBDA s1 :
        Let(IF want_v2 THEN V2_init(s1, username, password) ELSE s1, LAMBDA s2 :
            IF Raised(s2) THEN s2
            ELSE [s2 EXCEPT !.client = [present |-> TRUE, v1 |-> has_v1,
                                        v2 |-> want_v2]]))

\* __init__ going on with the official interface alone when the login fails
Client_init_login_optional(s, access_token, username, password) ==
    LET has_v1  == ~Falsy(access_token)
        want_v2 == ~Falsy(username) /\ ~Falsy(password)
    IN  Let(IF has_v1 THEN V1_init(s, access_token) ELSE s, LAMBDA s1 :
        Let(IF want_v2 THEN V2_init(s1, username, password) ELSE s1, LAMBDA s2 :
            IF Raised(s2) /\ has_v1
            THEN [s2 EXCEPT !.exit = Running,
                            !.client = [present |-> TRUE, v1 |-> TRUE, v2 |-> FALSE]]
            ELSE IF Raised(s2) THEN s2
            ELSE IF ~has_v1 /\ ~want_v2
            THEN _error_exit(s2, [text |-> "need V1 token or V2 username+password",
                                  err |-> NoErr])
            ELSE [s2 EXCEPT !.client = [present |-> TRUE, v1 |-> has_v1,
                                        v2 |-> want_v2]]))

Client_init(s, access_token, username, password) ==
    LET has_v1  == ~Falsy(access_token)
        want_v2 == ~Falsy(username) /\ ~Falsy(password)
    IN  Let(IF has_v1 THEN V1_init(s, access_token) ELSE s, LAMBDA s1 :
        Let(IF want_v2 THEN V2_init(s1, username, password) ELSE s1, LAMBDA s2 :
            IF Raised(s2) THEN s2
            ELSE IF ~has_v1 /\ ~want_v2
            THEN _error_exit(s2, [text |-> "need V1 token or V2 username+password",
                                  err |-> NoErr])
            ELSE [s2 EXCEPT !.client = [present |-> TRUE, v1 |-> has_v1,
                                        v2 |-> want_v2]]))

\* list_projects asking the internal interface first
Client_list_projects_v2_first(s) ==
    IF s.client.v2
    THEN Let(V2_sync(s), LAMBDA s1 :
             IF Raised(s1) THEN s1
             ELSE [s1 EXCEPT !.ret = Get(s1.ret, "projectProfiles", <<>>)])
    ELSE V1_list_projects(s)

Client_list_projects(s) ==
    IF s.client.v1 THEN V1_list_projects(s)
    ELSE Let(V2_sync(s), LAMBDA s1 :
             IF Raised(s1) THEN s1
             ELSE [s1 EXCEPT !.ret = Get(s1.ret, "projectProfiles", <<>>)])

Client_get_project(s, project_id) ==
    IF s.client.v1 THEN V1_get_project(s, project_id)
    ELSE _error_exit(s, [text |-> "get_project needs V1", err |-> NoErr])

Client_get_project_data(s, project_id) ==
    IF s.client.v1 THEN V1_get_project_data(s, project_id)
    ELSE _error_exit(s, [text |-> "get_project_data needs V1", err |-> NoErr])

Client_create_project(s, kwargs) ==
    IF s.client.v1 THEN V1_create_project(s, kwargs)
    ELSE _error_exit(s, [text |-> "create_project needs V1", err |-> NoErr])

Client_update_project(s, project_id, kwargs) ==
    IF s.client.v1 THEN V1_update_project(s, project_id, kwargs)
    ELSE _error_exit(s, [text |-> "update_project needs V1", err |-> NoErr])

\* delete_project without its `if not self.v1` check
Client_delete_project_unchecked(s, project_id) == V1_delete_project(s, project_id)

Client_delete_project(s, project_id) ==
    IF s.client.v1 THEN V1_delete_project(s, project_id)
    ELSE _error_exit(s, [text |-> "delete_project needs V1", err |-> NoErr])

RECURSIVE list_tasks_loop_abort(_, _, _, _)
\* the enumeration without its try/except: the first failed fetch ends it
list_tasks_loop_abort(s, projects, i, all_tasks) ==
    IF i > Len(projects) THEN [s EXCEPT !.ret = all_tasks]
    ELSE Let(V1_get_project_data(s, projects[i].id), LAMBDA s1 :
             IF Raised(s1) THEN s1
             ELSE list_tasks_loop_abort(s1, projects, i + 1,
                                        all_tasks \o Get(s1.ret, "tasks", <<>>)))

RECURSIVE list_tasks_loop(_, _, _, _)
\* for p in projects: try: extend all_tasks with p's tasks; except SystemExit: pass
list_tasks_loop(s, projects, i, all_tasks) ==
    IF i > Len(projects) THEN [s EXCEPT !.ret = all_tasks]
    ELSE Let(V1_get_project_data(s, projects[i].id), LAMBDA s1 :
             IF Raised(s1)
             THEN Let([s1 EXCEPT !.exit = Running], LAMBDA s2 :
                      list_tasks_loop(s2, projects, i + 1, all_tasks))
             ELSE list_tasks_loop(s1, projects, i + 1,
                                  all_tasks \o Get(s1.ret, "tasks", <<>>)))

Client_list_tasks(s, project_id) ==
    IF ~Falsy(project_id) /\ s.client.v1
    THEN Let(V1_get_project_data(s, project_id), LAMBDA s1 :
             IF Raised(s1) THEN s1
             ELSE [s1 EXCEPT !.ret = Get(s1.ret, "tasks", <<>>)])
    ELSE IF s.client.v2
    THEN Let(V2_sync(s), LAMBDA s1 :
             LET tasks == Get(Get(s1.ret, "syncTaskBean", EmptyDict), "update", <<>>)
             IN  IF Raised(s1) THEN s1
                 ELSE IF ~Falsy(project_id)
                 THEN [s1 EXCEPT !.ret =
                          SelectSeq(tasks,
                                    LAMBDA t : Get(t, "projectId", NoneV) = project_id)]
                 ELSE [s1 EXCEPT !.ret = tasks])
    ELSE Let(V1_list_projects(s), LAMBDA s1 :
             IF Raised(s1) THEN s1
             ELSE list_tasks_loop(s1, s1.ret, 1, <<>>))

Client_get_task(s, project_id, task_id) ==
    IF s.client.v1 THEN V1_get_task(s, project_id, task_id)
    ELSE _error_exit(s, [text |-> "get_task needs V1", err |-> NoErr])

Client_create_task(s, kwargs) ==
    IF s.client.v1 THEN V1_create_task(s, kwargs)
    ELSE _error_exit(s, [text |-> "create_task needs V1", err |-> NoErr])

\* update_task submitting the caller's fields alone
Client_update_task_clobber(s, task_id, kwargs) ==
    IF ~s.client.v1
    THEN _error_exit(s, [text |-> "update_task needs V1", err |-> NoErr])
    ELSE LET project_id == Get(kwargs, "projectId", NoneV)
         IN  IF Falsy(project_id)
             THEN _error_exit(s, [text |-> "update_task needs projectId", err |-> NoErr])
             ELSE Let(V1_get_task(s, project_id, task_id), LAMBDA s1 :
                      IF Raised(s1) THEN s1
                      ELSE V1_update_task(s1, task_id, kwargs))

Client_update_task(s, task_id, kwargs) ==
    IF ~s.client.v1
    THEN _error_exit(s, [text |-> "update_task needs V1", err |-> NoErr])
    ELSE LET project_id == Get(kwargs, "projectId", NoneV)
         IN  IF Falsy(project_id)
             THEN _error_exit(s, [text |-> "update_task needs projectId", err |-> NoErr])
             ELSE Let(V1_get_task(s, project_id, task_id), LAMBDA s1 :
                      IF Raised(s1) THEN s1
                      ELSE Let(DictUpdate(s1.ret, kwargs), LAMBDA existing :
                               V1_update_task(s1, task_id, existing)))

Client_complete_task(s, project_id, task_id) ==
    IF s.client.v1 THEN V1_complete_task(s, project_id, task_id)
    ELSE _error_exit(s, [text |-> "complete_task needs V1", err |-> NoErr])

Client_delete_task(s, project_id, task_id) ==
    IF s.client.v1 THEN V1_delete_task(s, project_id, task_id)
    ELSE _error_exit(s, [text |-> "delete_task needs V1", err |-> NoErr])

Client_search_tasks(s, query) ==
    IF ~s.client.v2
    THEN _error_exit(s, [text |-> "search needs V2", err |-> NoErr])
    ELSE Let(V2_sync(s), LAMBDA s1 :
             LET tasks == Get(Get(s1.ret, "syncTaskBean", EmptyDict), "update", <<>>)
                 q == lower(query)
             IN  IF Raised(s1) THEN s1
                 ELSE [s1 EXCEPT !.ret =
                          SelectSeq(tasks, LAMBDA t :
                              \/ Contains(q, lower(Get(t, "title", <<>>)))
                              \/ Contains(q, lower(Get(t, "content", <<>>)))
                              \/ Contains(q, lower(Get(t, "desc", <<>>))))])

Client_get_completed_tasks(s, project_id, limit) ==
    IF ~s.client.v2
    THEN _error_exit(s, [text |-> "completed needs V2", err |-> NoErr])
    ELSE V2_get_completed_tasks(s, project_id, limit)

Client_list_tags(s) ==
    IF ~s.client.v2
    THEN _error_exit(s, [text |-> "tags needs V2", err |-> NoErr])
    ELSE V2_list_tags(s)

\* create_tag submitting the caller's name as it is, not lowercased
Client_create_tag_no_lower(s, name, color, parent) ==
    IF ~s.client.v2
    THEN _error_exit(s, [text |-> "tag-create needs V2", err |-> NoErr])
    ELSE LET tag0 == [label |-> name, name |-> name, sortType |-> "project"]
             tag1 == IF ~Falsy(color) THEN DictSet(tag0, "color", color) ELSE tag0
             tag  == IF parent # <<>> THEN DictSet(tag1, "parent", lower(parent)) ELSE tag1
         IN  V2_batch_tag(s, <<tag>>, <<>>, <<>>)

\* name and parent are text; an absent parent is the empty text
Client_create_tag(s, name, color, parent) ==
    IF ~s.client.v2
    THEN _error_exit(s, [text |-> "tag-create needs V2", err |-> NoErr])
    ELSE LET tag0 == [label |-> name, name |-> lower(name), sortType |-> "project"]
             tag1 == IF ~Falsy(color) THEN DictSet(tag0, "color", color) ELSE tag0
             tag  == IF parent # <<>> THEN DictSet(tag1, "parent", lower(parent)) ELSE tag1
         IN  V2_batch_tag(s, <<tag>>, <<>>, <<>>)

Client_sync(s) ==
    IF ~s.client.v2
    THEN _error_exit(s, [text |-> "sync needs V2", err |-> NoErr])
    ELSE V2_sync(s)

Client_upload_attachment(s, project_id, task_id, file_path) ==
    IF ~s.client.v2
    THEN _error_exit(s, [text |-> "upload-attachment needs V2", err |-> NoErr])
    ELSE V2_upload_attachment(s, project_id, task_id, file_path)

create_client_from_env(s) ==
    Client_init(s, environ.TICKTICK_ACCESS_TOKEN, environ.TICKTICK_USERNAME,
                environ.TICKTICK_PASSWORD)

-----------------------------------------------------------------------------
(* ticktick_cli: the subcommands.  Text arguments (title, content, desc,   *)
(* query, tag name) are character sequences, absent when empty; the other *)
(* optional arguments are NoneV when absent.                               *)

SetIf(cond, d, k, v) == IF cond THEN DictSet(d, k, v) ELSE d

cmd_projects(s, args) ==
    Let(create_client_from_env(s), LAMBDA s1 :
        IF Raised(s1) THEN s1
        ELSE Let(Client_list_projects(s1), LAMBDA s2 :
                 IF Raised(s2) THEN s2
                 ELSE _json_output(s2, s2.ret)))

cmd_project_get(s, args) ==
    Let(create_client_from_env(s), LAMBDA s1 :
        IF Raised(s1) THEN s1
        ELSE Let(Client_get_project_data(s1, args.project_id), LAMBDA s2 :
                 IF Raised(s2) THEN s2
                 ELSE _json_output(s2, s2.ret)))

project_create_kwargs(args) ==
    LET k0 == [name |-> args.name]
        k1 == SetIf(~Falsy(args.color), k0, "color", args.color)
        k2 == SetIf(~Falsy(args.view), k1, "viewMode", args.view)
    IN  SetIf(~Falsy(args.kind), k2, "kind", args.kind)

cmd_project_create(s, args) ==
    Let(create_client_from_env(s), LAMBDA s1 :
        IF Raised(s1) THEN s1
        ELSE Let(Client_create_project(s1, project_create_kwargs(args)), LAMBDA s2 :
                 IF Raised(s2) THEN s2
                 ELSE _json_output(s2, s2.ret)))

project_update_kwargs(args) ==
    LET k1 == SetIf(~Falsy(args.name), EmptyDict, "name", args.name)
    IN  SetIf(~Falsy(args.color), k1, "color", args.color)

cmd_project_update(s, args) ==
    Let(create_client_from_env(s), LAMBDA s1 :
        IF Raised(s1) THEN s1
        ELSE Let(project_update_kwargs(args), LAMBDA kwargs :
             IF DOMAIN kwargs = {}
             THEN \* print("...", file=sys.stderr); sys.exit(1)
                  [s1 EXCEPT !.stderr = Append(@, [format |-> "text",
                                         payload |-> "error: give --name or --color"]),
                             !.exit = 1]
             ELSE Let(Client_update_project(s1, args.project_id, kwargs), LAMBDA s2 :
                      IF Raised(s2) THEN s2
                      ELSE _json_output(s2, s2.ret))))

cmd_project_delete(s, args) ==
    Let(create_client_from_env(s), LAMBDA s1 :
        IF Raised(s1) THEN s1
        ELSE Let(Client_delete_project(s1, args.project_id), LAMBDA s2 :
                 IF Raised(s2) THEN s2
                 ELSE _json_output(s2, [success |-> TRUE, deleted |-> args.project_id])))

cmd_tasks(s, args) ==
    Let(create_client_from_env(s), LAMBDA s1 :
        IF Raised(s1) THEN s1
        ELSE Let(Client_list_tasks(s1, args.project), LAMBDA s2 :
                 LET tasks ==
                       IF args.status = "pending"
                       THEN SelectSeq(s2.ret, LAMBDA t : Get(t, "status", 0) = 0)
                       ELSE IF args.status = "completed"
                       THEN SelectSeq(s2.ret, LAMBDA t : Get(t, "status", 0) = 2)
                       ELSE s2.ret
                 IN  IF Raised(s2) THEN s2 ELSE _json_output(s2, tasks)))

cmd_task_get(s, args) ==
    Let(create_client_from_env(s), LAMBDA s1 :
        IF Raised(s1) THEN s1
        ELSE Let(Client_get_task(s1, args.project_id, args.task_id), LAMBDA s2 :
                 IF Raised(s2) THEN s2
                 ELSE _json_output(s2, s2.ret)))

task_create_kwargs(args) ==
    LET k0 == [title |-> args.title, projectId |-> args.project]
        k1 == SetIf(args.content # <<>>, k0, "content", replace_nl(args.content))
        k2 == SetIf(args.desc # <<>>, k1, "desc", replace_nl(args.desc))
        k3 == SetIf(~Falsy(args.priority), k2, "priority",
                    Get(PRIORITY_MAP, args.priority, 0))
        k4 == SetIf(~Falsy(args.due), k3, "dueDate", args.due)
        k5 == SetIf(~Falsy(args.start), k4, "startDate", args.start)
        k6 == SetIf(args.all_day, k5, "isAllDay", TRUE)
        k7 == SetIf(~Falsy(args.timezone), k6, "timeZone", args.timezone)
        k8 == SetIf(~Falsy(args.kind), k7, "kind", args.kind)
        k9 == SetIf(args.reminder # <<>>, k8, "reminders", args.reminder)
        k10 == SetIf(~Falsy(args.repeat), k9, "repeatFlag", args.repeat)
    IN  SetIf(args.subtask # <<>>, k10, "items",
              [i \in 1..Len(args.subtask) |-> [title |-> args.subtask[i], status |-> 0]])

cmd_task_create(s, args) ==
    Let(create_client_from_env(s), LAMBDA s1 :
        IF Raised(s1) THEN s1
        ELSE Let(Client_create_task(s1, task_create_kwargs(args)), LAMBDA s2 :
                 IF Raised(s2) THEN s2
                 ELSE _json_output(s2, s2.ret)))

task_update_kwargs(args) ==
    LET k0 == [id |-> args.task_id, projectId |-> args.project]
        k1 == SetIf(args.title # <<>>, k0, "title", args.title)
        k2 == SetIf(args.content # <<>>, k1, "content", replace_nl(args.content))
        k3 == SetIf(~Falsy(args.priority), k2, "priority",
                    Get(PRIORITY_MAP, args.priority, 0))
        k4 == SetIf(~Falsy(args.due), k3, "dueDate", args.due)
    IN  SetIf(~Falsy(args.start), k4, "startDate", args.start)

cmd_task_update(s, args) ==
    Let(create_client_from_env(s), LAMBDA s1 :
        IF Raised(s1) THEN s1
        ELSE Let(Client_update_task(s1, args.task_id, task_update_kwargs(args)), LAMBDA s2 :
                 IF Raised(s2) THEN s2
                 ELSE _json_output(s2, s2.ret)))

cmd_task_complete(s, args) ==
    Let(create_client_from_env(s), LAMBDA s1 :
        IF Raised(s1) THEN s1
        ELSE Let(Client_complete_task(s1, args.project_id, args.task_id), LAMBDA s2 :
                 IF Raised(s2) THEN s2
                 ELSE _json_output(s2, [success |-> TRUE, completed |-> args.task_id])))

cmd_task_delete(s, args) ==
    Let(create_client_from_env(s), LAMBDA s1 :
        IF Raised(s1) THEN s1
        ELSE Let(Client_delete_task(s1, args.project_id, args.task_id), LAMBDA s2 :
                 IF Raised(s2) THEN s2
                 ELSE _json_output(s2, [success |-> TRUE, deleted |-> args.task_id])))

cmd_search(s, args) ==
    Let(create_client_from_env(s), LAMBDA s1 :
        IF Raised(s1) THEN s1
        ELSE Let(Client_search_tasks(s1, args.query), LAMBDA s2 :
                 IF Raised(s2) THEN s2
                 ELSE _json_output(s2, s2.ret)))

cmd_completed(s, args) ==
    Let(create_client_from_env(s), LAMBDA s1 :
        IF Raised(s1) THEN s1
        ELSE Let(Client_get_completed_tasks(s1, args.project, args.limit), LAMBDA s2 :
                 IF Raised(s2) THEN s2
                 ELSE _json_output(s2, s2.ret)))

cmd_tags(s, args) ==
    Let(create_client_from_env(s), LAMBDA s1 :
        IF Raised(s1) THEN s1
        ELSE Let(Client_list_tags(s1), LAMBDA s2 :
                 IF Raised(s2) THEN s2
                 ELSE _json_output(s2, s2.ret)))

cmd_tag_create(s, args) ==
    Let(create_client_from_env(s), LAMBDA s1 :
        IF Raised(s1) THEN s1
        ELSE Let(Client_create_tag(s1, args.name, args.color, args.parent), LAMBDA s2 :
                 IF Raised(s2) THEN s2
                 ELSE _json_output(s2, s2.ret)))

cmd_sync(s, args) ==
    Let(create_client_from_env(s), LAMBDA s1 :
        IF Raised(s1) THEN s1
        ELSE Let(Client_sync(s1), LAMBDA s2 :
             LET data == s2.ret
                 summary ==
                   [inboxId |-> Get(data, "inboxId", NoneV),
                    projects |-> Len(Get(data, "projectProfiles", <<>>)),
                    project_folders |-> Len(Get(data, "projectGroups", <<>>)),
                    tags |-> Len(Get(data, "tags", <<>>)),
                    tasks |-> Len(Get(Get(data, "syncTaskBean", EmptyDict),
                                      "update", <<>>))]
             IN  IF Raised(s2) THEN s2
                 ELSE IF args.full THEN _json_output(s2, data)
                 ELSE _json_output(s2, summary)))

Commands ==
    {"projects", "project-get", "project-create", "project-update", "project-delete",
     "tasks", "task-get", "task-create", "task-update", "task-complete", "task-delete",
     "search", "completed", "tags", "tag-create", "sync"}

\* COMMAND_MAP.get(command)(args)
COMMAND_MAP(s, command, args) ==
    CASE command = "projects"       -> cmd_projects(s, args)
      [] command = "project-get"    -> cmd_project_get(s, args)
      [] command = "project-create" -> cmd_project_create(s, args)
      [] command = "project-update" -> cmd_project_update(s, args)
      [] command = "project-delete" -> cmd_project_delete(s, args)
      [] command = "tasks"          -> cmd_tasks(s, args)
      [] command = "task-get"       -> cmd_task_get(s, args)
      [] command = "task-create"    -> cmd_task_create(s, args)
      [] command = "task-update"    -> cmd_task_update(s, args)
      [] command = "task-complete"  -> cmd_task_complete(s, args)
      [] command = "task-delete"    -> cmd_task_delete(s, args)
      [] command = "search"         -> cmd_search(s, args)
      [] command = "completed"      -> cmd_completed(s, args)
      [] command = "tags"           -> cmd_tags(s, args)
      [] command = "tag-create"     -> cmd_tag_create(s, args)
      [] command = "sync"           -> cmd_sync(s, args)

\* the arguments are those build_parser accepts; command is NoneV when absent
main(s, command, args) ==
    IF Falsy(command) \/ command \notin Commands
    THEN [s EXCEPT !.stdout = Append(@, [format |-> "text", payload |-> <<"usage">>]),
                   !.exit = 1]
    ELSE COMMAND_MAP(s, command, args)

-----------------------------------------------------------------------------
(* The process *)

CredValues == {NoneV, "", "secret"}

NoV1 == [present |-> FALSE, access_token |-> NoneV]
NoV2 == [present |-> FALSE, session_token |-> NoneV, csrf_token |-> NoneV,
         inbox_id |-> NoneV, device_id |-> NoneV]
NoClient == [present |-> FALSE, v1 |-> FALSE, v2 |-> FALSE]

Init ==
    /\ environ \in [TICKTICK_ACCESS_TOKEN : CredValues, TICKTICK_USERNAME : CredValues,
                    TICKTICK_PASSWORD : CredValues]
    /\ pc = "start"
    /\ v1 = NoV1
    /\ v2 = NoV2
    /\ client = NoClient
    /\ requests = <<>>
    /\ stderr = <<>>
    /\ stdout = <<>>
    /\ exit_code = Running
    /\ ret = <<>>
    /\ calls = <<>>
    /\ remote \in RemoteStores

\* what the remote service will answer during one call
Oracle(st, projects, login) ==
    [st |-> st, projects |-> projects, login |-> login, file_exists |-> TRUE,
     now |-> [hi |-> 0, lo |-> 0], rand |-> CHOOSE r \in RandomHex16 : TRUE]

StatusDraws(k) == SeqsOfLen(V1Statuses, k)

GivesToken(r) == Is2xx(r.status) /\ "token" \in DOMAIN r.body[1]

\* the answers of the login endpoints that are asked, drawn when a login can
\* happen: the second endpoint's answer only when the first gave no token
LoginDraws ==
    IF ~Falsy(environ.TICKTICK_USERNAME) /\ ~Falsy(environ.TICKTICK_PASSWORD)
    THEN {<<r>> : r \in {x \in LoginResponses : GivesToken(x)}}
         \cup {<<r1, r2>> : r1 \in {x \in LoginResponses : ~GivesToken(x)},
                            r2 \in LoginResponses}
    ELSE {<<>>}

\* a project list with an answer for the listing request and for the fetch
\* of each listed project
ListingDraws ==
    UNION {{[pl |-> pl, st |-> st] : st \in StatusDraws(1 + Len(pl))} : pl \in ProjectLists}

OneProjectList == {<<[id |-> "p1", name |-> "Work"], [id |-> "a/b", name |-> "Work"]>>}

\* the process state a call starts from
Start(o) ==
    [v1 |-> v1, v2 |-> v2, client |-> client, requests |-> requests,
     stderr |-> stderr, stdout |-> stdout, exit |-> Running, ret |-> EmptyDict,
     remote |-> remote, oracle |-> o]

\* the process state a call leaves: an uncaught SystemExit ends the process
\* with its status, a command that returns ends it with status 0
Finish(result, op, args, cli) ==
    \E s \in {result} :
    /\ v1' = s.v1
    /\ v2' = s.v2
    /\ client' = s.client
    /\ requests' = s.requests
    /\ stderr' = s.stderr
    /\ stdout' = s.stdout
    /\ remote' = s.remote
    /\ exit_code' = IF Raised(s) THEN s.exit ELSE IF cli THEN 0 ELSE Running
    /\ pc' = IF Raised(s) \/ cli THEN "exited" ELSE "ready"
    /\ ret' = IF Raised(s) THEN <<>> ELSE <<s.ret>>
    /\ calls' = Append(calls, [op |-> op, args |-> args, cli |-> cli,
                               first |-> Len(requests) + 1, now |-> s.oracle.now])
    /\ UNCHANGED environ

\* python3 ticktick_cli.py <command> <args>, with the service answering o
Cli(command, args, o) ==
    /\ pc = "start"
    /\ \E s0 \in {Start(o)} : Finish(main(s0, command, args), command, args, TRUE)

\* a call on the dispatcher a library user constructed
CanCall == pc = "ready" /\ Len(calls) <= MaxOps

-----------------------------------------------------------------------------
(* Command lines *)

TaskUpdateFields ==
    {[title |-> <<>>, content |-> <<>>, priority |-> NoneV, due |-> NoneV,
      start |-> NoneV],
     [title |-> <<"K">>, content |-> <<>>, priority |-> NoneV, due |-> NoneV,
      start |-> NoneV],
     [title |-> <<>>, content |-> <<"a", "\\", "n", "b">>, priority |-> "medium",
      due |-> NoneV, start |-> NoneV],
     [title |-> <<"K">>, content |-> <<"a", "\\", "n", "b">>, priority |-> "none",
      due |-> "2026-03-01", start |-> "2026-02-01"]}

TaskUpdateArgs ==
    {[task_id |-> tp[1], project |-> tp[2], title |-> f.title, content |-> f.content,
      priority |-> f.priority, due |-> f.due, start |-> f.start] :
        tp \in {<<"t1", "p1">>, <<"t2", "p1">>, <<"t3", "p1">>, <<"t1", "">>},
        f \in TaskUpdateFields}

TaskCreateArgs ==
    {[project |-> "p1", title |-> <<"K">>, content |-> <<>>, desc |-> <<>>,
      priority |-> NoneV, due |-> NoneV, start |-> NoneV, all_day |-> FALSE,
      timezone |-> NoneV, kind |-> NoneV, reminder |-> <<>>, repeat |-> NoneV,
      subtask |-> <<>>],
     [project |-> "p1", title |-> <<"K">>, content |-> <<"a", "\\", "n", "b">>,
      desc |-> <<"\\", "n">>, priority |-> "high", due |-> "2026-03-01",
      start |-> "2026-02-01", all_day |-> TRUE, timezone |-> "Asia/Taipei",
      kind |-> "CHECKLIST", reminder |-> <<"TRIGGER:-PT30M">>,
      repeat |-> "RRULE:FREQ=DAILY", subtask |-> <<<<"a">>, <<"b">>>>],
     [project |-> "a/b", title |-> <<"W">>, content |-> <<>>, desc |-> <<>>,
      priority |-> "low", due |-> NoneV, start |-> NoneV, all_day |-> FALSE,
      timezone |-> NoneV, kind |-> "NOTE", reminder |-> <<>>, repeat |-> NoneV,
      subtask |-> <<>>]}

MainNoCommand ==
    /\ pc = "start"
    /\ Cli(NoneV, EmptyDict, Oracle(<<>>, <<>>, <<>>))

CliProjects ==
    \E st \in StatusDraws(1), pl \in ProjectLists, lg \in LoginDraws :
        Cli("projects", EmptyDict, Oracle(st, pl, lg))

CliProjectGet ==
    \E a \in {[project_id |-> p] : p \in ProjectIds},
       st \in StatusDraws(1), lg \in LoginDraws :
        Cli("project-get", a, Oracle(st, <<>>, lg))

CliProjectCreate ==
    \E a \in {[name |-> "Work", color |-> c, view |-> v, kind |-> "TASK"] :
                  c \in {NoneV, "#FF5733"}, v \in {NoneV, "kanban"}},
       st \in StatusDraws(1), lg \in LoginDraws :
        Cli("project-create", a, Oracle(st, <<>>, lg))

CliProjectUpdate ==
    \E a \in {[project_id |-> "p1", name |-> n, color |-> c] :
                  n \in {NoneV, "New"}, c \in {NoneV, "#FF5733"}},
       st \in StatusDraws(1), lg \in LoginDraws :
        Cli("project-update", a, Oracle(st, <<>>, lg))

CliProjectDelete ==
    \E st \in StatusDraws(1), lg \in LoginDraws :
        Cli("project-delete", [project_id |-> "p1"], Oracle(st, <<>>, lg))

CliTasks ==
    \E f \in {NoneV, "pending", "completed"}, lg \in LoginDraws :
        \/ \E d \in ListingDraws :
               Cli("tasks", [project |-> NoneV, status |-> f], Oracle(d.st, d.pl, lg))
        \/ \E st \in StatusDraws(1), pl \in OneProjectList :
               Cli("tasks", [project |-> "p1", status |-> f], Oracle(st, pl, lg))

CliTaskGet ==
    \E a \in {[project_id |-> p, task_id |-> "t1"] : p \in ProjectIds},
       st \in StatusDraws(1), lg \in LoginDraws :
        Cli("task-get", a, Oracle(st, <<>>, lg))

CliTaskCreate ==
    \E a \in TaskCreateArgs, st \in StatusDraws(1), lg \in LoginDraws :
        Cli("task-create", a, Oracle(st, <<>>, lg))

CliTaskUpdate ==
    \E a \in TaskUpdateArgs, st \in StatusDraws(2), lg \in LoginDraws :
        Cli("task-update", a, Oracle(st, <<>>, lg))

CliTaskComplete ==
    \E a \in {[project_id |-> "p1", task_id |-> t] : t \in {"t1", "t2"}},
       st \in StatusDraws(1), lg \in LoginDraws :
        Cli("task-complete", a, Oracle(st, <<>>, lg))

CliTaskDelete ==
    \E a \in {[project_id |-> "p1", task_id |-> t] : t \in {"t1", "t2"}},
       st \in StatusDraws(1), lg \in LoginDraws :
        Cli("task-delete", a, Oracle(st, <<>>, lg))

CliSearch ==
    \E a \in {[query |-> q] : q \in {<<"K">>, <<"z">>}},
       st \in StatusDraws(1), pl \in OneProjectList, lg \in LoginDraws :
        Cli("search", a, Oracle(st, pl, lg))

CliCompleted ==
    \E a \in {[project |-> p, limit |-> 50] : p \in {NoneV, "p1"}},
       st \in StatusDraws(1), lg \in LoginDraws :
        Cli("completed", a, Oracle(st, <<>>, lg))

CliTags ==
    \E st \in StatusDraws(1), pl \in OneProjectList, lg \in LoginDraws :
        Cli("tags", EmptyDict, Oracle(st, pl, lg))

CliTagCreate ==
    \E a \in {[name |-> <<"W", "k">>, color |-> c, parent |-> p] :
                  c \in {NoneV, "#57A8FF"}, p \in {<<>>, <<"A">>}},
       st \in StatusDraws(1), lg \in LoginDraws :
        Cli("tag-create", a, Oracle(st, <<>>, lg))

CliSync ==
    \E a \in {[full |-> f] : f \in BOOLEAN},
       st \in StatusDraws(1), pl \in OneProjectList, lg \in LoginDraws :
        Cli("sync", a, Oracle(st, pl, lg))

-----------------------------------------------------------------------------
(* Library use: construct the dispatcher, then call it *)

CreateClient ==
    /\ pc = "start"
    /\ \E lg \in LoginDraws :
         \E s0 \in {Start(Oracle(<<>>, <<>>, lg))} :
           Finish(create_client_from_env(s0), "create_client_from_env", EmptyDict, FALSE)

\* client.<op>(**args), and client.v2.<op>(...) for what the dispatcher does
\* not wrap
Invoke(s, op, a) ==
    CASE op = "list_projects"    -> Client_list_projects(s)
      [] op = "get_project"      -> Client_get_project(s, a.project_id)
      [] op = "get_project_data" -> Client_get_project_data(s, a.project_id)
      [] op = "create_project"   -> Client_create_project(s, a.kwargs)
      [] op = "update_project"   -> Client_update_project(s, a.project_id, a.kwargs)
      [] op = "delete_project"   -> Client_delete_project(s, a.project_id)
      [] op = "list_tasks"       -> Client_list_tasks(s, a.project_id)
      [] op = "get_task"         -> Client_get_task(s, a.project_id, a.task_id)
      [] op = "create_task"      -> Client_create_task(s, a.kwargs)
      [] op = "update_task"      -> Client_update_task(s, a.task_id, a.kwargs)
      [] op = "complete_task"    -> Client_complete_task(s, a.project_id, a.task_id)
      [] op = "delete_task"      -> Client_delete_task(s, a.project_id, a.task_id)
      [] op = "search_tasks"     -> Client_search_tasks(s, a.query)
      [] op = "get_completed_tasks" ->
             Client_get_completed_tasks(s, a.project_id, a.limit)
      [] op = "list_tags"        -> Client_list_tags(s)
      [] op = "create_tag"       -> Client_create_tag(s, a.name, a.color, a.parent)
      [] op = "sync"             -> Client_sync(s)
      [] op = "upload_attachment" ->
             Client_upload_attachment(s, a.project_id, a.task_id, a.file_path)
      [] op = "v2.batch_task"    -> V2_batch_task(s, a.add, a.update, a.delete)
      [] op = "v2.get_user_settings" -> V2_get_user_settings(s)
      [] op = "v2.get_user_profile"  -> V2_get_user_profile(s)

LibCall(op, a, o) ==
    /\ CanCall
    /\ \E s0 \in {Start(o)} : Finish(Invoke(s0, op, a), op, a, FALSE)

LibUpdateKwargs ==
    {[projectId |-> "p1", title |-> <<"K">>],
     [projectId |-> "p1", content |-> <<"z">>, priority |-> 5],
     [title |-> <<"K">>],
     [projectId |-> "", title |-> <<"K">>],
     [projectId |-> "a/b", title |-> <<"K">>]}

\* time.time() at the call: 0, 1700000000 (0x6553f100) and 4294967296 (2^32)
NowSamples ==
    {[hi |-> 0, lo |-> 0], [hi |-> 25939, lo |-> 61696], [hi |-> 65536, lo |-> 0]}

P1 == [project_id |-> "p1"]
P1T1 == [project_id |-> "p1", task_id |-> "t1"]

ListProjects ==
    /\ CanCall
    /\ \E st \in StatusDraws(1), pl \in OneProjectList :
             LibCall("list_projects", EmptyDict, Oracle(st, pl, <<>>))

GetProject ==
    /\ CanCall
    /\ \E st \in StatusDraws(1) : LibCall("get_project", P1, Oracle(st, <<>>, <<>>))

GetProjectData ==
    /\ CanCall
    /\ \E st \in StatusDraws(1) : LibCall("get_project_data", P1, Oracle(st, <<>>, <<>>))

CreateProject ==
    /\ CanCall
    /\ \E st \in StatusDraws(1) :
             LibCall("create_project", [kwargs |-> [name |-> "Work"]], Oracle(st, <<>>, <<>>))

UpdateProject ==
    /\ CanCall
    /\ \E st \in StatusDraws(1) :
             LibCall("update_project", [project_id |-> "p1", kwargs |-> [name |-> "New"]],
                     Oracle(st, <<>>, <<>>))

DeleteProject ==
    /\ CanCall
    /\ \E st \in StatusDraws(1) : LibCall("delete_project", P1, Oracle(st, <<>>, <<>>))

ListTasks ==
    /\ CanCall
    /\ \/ \E p \in {NoneV, ""}, d \in ListingDraws :
              LibCall("list_tasks", [project_id |-> p], Oracle(d.st, d.pl, <<>>))
       \/ \E st \in StatusDraws(1), pl \in OneProjectList :
              LibCall("list_tasks", [project_id |-> "p1"], Oracle(st, pl, <<>>))

GetTask ==
    /\ CanCall
    /\ \E st \in StatusDraws(1) : LibCall("get_task", P1T1, Oracle(st, <<>>, <<>>))

CreateTask ==
    /\ CanCall
    /\ \E st \in StatusDraws(1) :
             LibCall("create_task", [kwargs |-> [title |-> <<"K">>, projectId |-> "p1"]],
                     Oracle(st, <<>>, <<>>))

UpdateTask ==
    /\ CanCall
    /\ \E kw \in LibUpdateKwargs, st \in StatusDraws(2) :
             LibCall("update_task", [task_id |-> "t1", kwargs |-> kw], Oracle(st, <<>>, <<>>))

CompleteTask ==
    /\ CanCall
    /\ \E st \in StatusDraws(1) : LibCall("complete_task", P1T1, Oracle(st, <<>>, <<>>))

DeleteTask ==
    /\ CanCall
    /\ \E st \in StatusDraws(1) : LibCall("delete_task", P1T1, Oracle(st, <<>>, <<>>))

SearchTasks ==
    /\ CanCall
    /\ \E st \in StatusDraws(1), pl \in OneProjectList :
             LibCall("search_tasks", [query |-> <<"K">>], Oracle(st, pl, <<>>))

GetCompletedTasks ==
    /\ CanCall
    /\ \E p \in {NoneV, "p1"}, st \in StatusDraws(1) :
             LibCall("get_completed_tasks", [project_id |-> p, limit |-> 50],
                     Oracle(st, <<>>, <<>>))

ListTags ==
    /\ CanCall
    /\ \E st \in StatusDraws(1), pl \in OneProjectList :
             LibCall("list_tags", EmptyDict, Oracle(st, pl, <<>>))

CreateTag ==
    /\ CanCall
    /\ \E par \in {<<>>, <<"A">>}, st \in StatusDraws(1) :
             LibCall("create_tag", [name |-> <<"W", "k">>, color |-> "#57A8FF", parent |-> par],
                     Oracle(st, <<>>, <<>>))

Sync ==
    /\ CanCall
    /\ \E st \in StatusDraws(1), pl \in OneProjectList :
             LibCall("sync", EmptyDict, Oracle(st, pl, <<>>))

UploadAttachment ==
    /\ CanCall
    /\ \E st \in StatusDraws(1), ex \in BOOLEAN, now \in NowSamples :
             LibCall("upload_attachment",
                     [project_id |-> "p1", task_id |-> "t1", file_path |-> "a.txt"],
                     [Oracle(st, <<>>, <<>>) EXCEPT !.file_exists = ex, !.now = now])

BatchTask ==
    /\ client.v2
    /\ \E st \in StatusDraws(1) :
         LibCall("v2.batch_task",
                 [add |-> <<>>, update |-> <<>>,
                  delete |-> <<[taskId |-> "t2", projectId |-> "p1"]>>],
                 Oracle(st, <<>>, <<>>))

GetUserSettings ==
    /\ client.v2
    /\ \E st \in StatusDraws(1) :
         LibCall("v2.get_user_settings", EmptyDict, Oracle(st, <<>>, <<>>))

GetUserProfile ==
    /\ client.v2
    /\ \E st \in StatusDraws(1) :
         LibCall("v2.get_user_profile", EmptyDict, Oracle(st, <<>>, <<>>))

Next ==
    \/ MainNoCommand
    \/ CliProjects \/ CliProjectGet \/ CliProjectCreate \/ CliProjectUpdate
    \/ CliProjectDelete \/ CliTasks \/ CliTaskGet \/ CliTaskCreate \/ CliTaskUpdate
    \/ CliTaskComplete \/ CliTaskDelete \/ CliSearch \/ CliCompleted \/ CliTags
    \/ CliTagCreate \/ CliSync
    \/ CreateClient
    \/ ListProjects \/ GetProject \/ GetProjectData \/ CreateProject \/ UpdateProject
    \/ DeleteProject \/ ListTasks \/ GetTask \/ CreateTask \/ UpdateTask
    \/ CompleteTask \/ DeleteTask \/ SearchTasks \/ GetCompletedTasks \/ ListTags
    \/ CreateTag \/ Sync \/ UploadAttachment
    \/ BatchTask \/ GetUserSettings \/ GetUserProfile

Spec == Init /\ [][Next]_vars

-----------------------------------------------------------------------------
(* Reading the request log *)

LastCall == calls[Len(calls)]

\* the requests call i sent
CallReqs(i) ==
    SubSeq(requests, calls[i].first,
           IF i < Len(calls) THEN calls[i + 1].first - 1 ELSE Len(requests))

\* the call that sent request j
CallOf(j) ==
    CHOOSE i \in 1..Len(calls) :
        calls[i].first <= j /\ (i = Len(calls) \/ calls[i + 1].first > j)

IsLogin(r) ==
    /\ r.api = "v2" /\ r.method = "POST" /\ Len(r.path) = 2
    /\ r.path[1] = "user" /\ r.path[2] \in {"signon", "signin"}

IsSync(r) == r.api = "v2" /\ r.method = "GET" /\ r.path = <<"batch", "check", "0">>

\* the requests of the operation call i made, the login of a dispatcher
\* constructed in the same command set aside
OpReqs(i) == SelectSeq(CallReqs(i), LAMBDA r : ~IsLogin(r))

LoginReqs == SelectSeq(requests, IsLogin)

YieldsSession(resp) ==
    Is2xx(resp.status) /\ ~Falsy(Get(resp.body[1], "token", NoneV))

\* a line of the error stream that is a JSON object {"success": false, "error": ...}
IsJsonError(e) ==
    e.format = "json" /\ e.payload.success = FALSE /\ "error" \in DOMAIN e.payload

ErrorLine(text, err) ==
    [format |-> "json", payload |-> [success |-> FALSE,
                                     error |-> [text |-> text, err |-> err]]]

\* the dispatcher exists and the last call was made on it
Dispatched == calls # <<>> /\ client.present

\* the project scope a listing call was given
Scope(c) == IF c.cli THEN c.args.project ELSE c.args.project_id

IsUpdateCall(c) == c.op \in {"update_task", "task-update"}
UpdateKwargs(c) == IF c.cli THEN task_update_kwargs(c.args) ELSE c.args.kwargs

IsListTasks(c) == c.op \in {"list_tasks", "tasks"}
IsListProjects(c) == c.op \in {"list_projects", "projects"}

-----------------------------------------------------------------------------
(* C1 *)

C1_Step ==
    (/\ Len(calls') = Len(calls) + 1
     /\ IsUpdateCall(calls'[Len(calls')])
     /\ client'.present /\ client'.v1) =>
    LET c   == calls'[Len(calls')]
        kw  == UpdateKwargs(c)
        tid == c.args.task_id
        pid == Get(kw, "projectId", NoneV)
        rs  == SelectSeq(SubSeq(requests', c.first, Len(requests')),
                         LAMBDA r : ~IsLogin(r))
    IN  (~Falsy(pid) /\ tid \in DOMAIN remote /\ remote[tid].projectId = pid) =>
        /\ Len(rs) >= 1
        /\ rs[1].method = "GET"
        /\ rs[1].path = <<"project", quote(pid), "task", quote(tid)>>
        /\ ~Is2xx(rs[1].resp.status) => (Len(rs) = 1 /\ remote' = remote)
        /\ Is2xx(rs[1].resp.status) =>
             LET fetched == rs[1].resp.body[1]
             IN  /\ fetched = remote[tid]
                 /\ Len(rs) = 2
                 /\ rs[2].method = "POST"
                 /\ rs[2].path = <<"task", quote(tid)>>
                 /\ rs[2].body # <<>>
                 /\ LET sent == rs[2].body[1]
                    IN  /\ DOMAIN sent = (DOMAIN fetched) \cup (DOMAIN kw)
                        /\ \A k \in DOMAIN kw : sent[k] = kw[k]
                        /\ \A k \in (DOMAIN fetched) \ (DOMAIN kw) : sent[k] = fetched[k]
                        /\ Is2xx(rs[2].resp.status) =>
                             /\ remote'[tid] = sent
                             /\ \A k \in (DOMAIN remote[tid]) \ (DOMAIN kw) :
                                    /\ k \in DOMAIN remote'[tid]
                                    /\ remote'[tid][k] = remote[tid][k]
                             /\ \A k \in DOMAIN kw : remote'[tid][k] = kw[k]
                        /\ ~Is2xx(rs[2].resp.status) => remote' = remote

\* C1: update_task on an existing task, with caller fields that include its
\* projectId, first GETs the task and then POSTs to the update endpoint the
\* fetched task overlaid with the caller's fields: every fetched field the
\* caller did not supply keeps its fetched value, every caller field has the
\* caller's value; the backend, storing what was submitted, keeps the fields
\* the caller left out (attachments among them) and has the caller's values.
C1_PartialUpdateKeepsFields == [][C1_Step]_vars

\* an update of t1's title went through and t1 still has its attachments and content
C1_Witness ==
    /\ Dispatched /\ IsUpdateCall(LastCall) /\ LastCall.args.task_id = "t1"
    /\ "attachments" \notin DOMAIN UpdateKwargs(LastCall)
    /\ Len(OpReqs(Len(calls))) = 2
    /\ Is2xx(OpReqs(Len(calls))[2].resp.status)
    /\ remote["t1"].title = <<"K">>
    /\ remote["t1"].attachments = <<"file1">>
    /\ remote["t1"].content = <<"k">>

-----------------------------------------------------------------------------
(* C2 *)

RECURSIVE TasksOfFetched(_, _, _)
\* the stored tasks of the listed projects whose fetch (request i + 1 of the
\* call) succeeded, in list order
TasksOfFetched(pl, rs, i) ==
    IF i > Len(pl) THEN <<>>
    ELSE (IF Is2xx(rs[i + 1].resp.status) THEN TasksOfProject(remote, pl[i].id) ELSE <<>>)
         \o TasksOfFetched(pl, rs, i + 1)

StatusFilter(c, tasks) ==
    IF c.cli /\ c.args.status = "pending"
    THEN SelectSeq(tasks, LAMBDA x : Get(x, "status", 0) = 0)
    ELSE IF c.cli /\ c.args.status = "completed"
    THEN SelectSeq(tasks, LAMBDA x : Get(x, "status", 0) = 2)
    ELSE tasks

V1OnlyUnscopedListing ==
    /\ Dispatched /\ client.v1 /\ ~client.v2
    /\ IsListTasks(LastCall) /\ Falsy(Scope(LastCall))

\* C2: with only the official interface, list_tasks without a project scope
\* asks for the project list and then for each listed project's data, in
\* order; whichever of those fetches are refused, the call returns normally
\* (the process does not exit) with exactly the concatenation, in list order,
\* of the task lists of the projects whose fetch succeeded.
C2_UnscopedListingSkipsFailures ==
    V1OnlyUnscopedListing =>
    LET c  == LastCall
        rs == OpReqs(Len(calls))
    IN  /\ Len(rs) >= 1
        /\ rs[1].method = "GET" /\ rs[1].path = <<"project">>
        /\ Is2xx(rs[1].resp.status) =>
             LET pl == rs[1].resp.body[1]
                 expected == TasksOfFetched(pl, rs, 1)
             IN  /\ Len(rs) = 1 + Len(pl)
                 /\ \A i \in 1..Len(pl) :
                        /\ rs[i + 1].method = "GET"
                        /\ rs[i + 1].path = <<"project", quote(pl[i].id), "data">>
                 /\ IF c.cli
                    THEN /\ exit_code = 0
                         /\ stdout = <<[format |-> "json",
                                        payload |-> <<StatusFilter(c, expected)>>]>>
                    ELSE /\ exit_code = Running /\ pc = "ready"
                         /\ ret = <<expected>>

\* P1 has two tasks, the second project's fetch fails: exactly P1's two tasks
C2_Witness ==
    /\ V1OnlyUnscopedListing /\ ~LastCall.cli
    /\ Len(OpReqs(Len(calls))) = 3
    /\ OpReqs(Len(calls))[2].path = <<"project", "p1", "data">>
    /\ Is2xx(OpReqs(Len(calls))[2].resp.status)
    /\ ~Is2xx(OpReqs(Len(calls))[3].resp.status)
    /\ ret = <<<<Task1, Task2>>>>
    /\ pc = "ready"

-----------------------------------------------------------------------------
(* C3 *)

\* C3: the login endpoints are contacted in the order /user/signon, then
\* /user/signin: the second only after the first gave no session (an HTTP
\* error or a response without a token), none after one that gave a session,
\* and each at most once per construction.
C3_LoginOrder ==
    LET L == LoginReqs
    IN  /\ Len(L) <= 2
        /\ Len(L) >= 1 => L[1].path = <<"user", "signon">>
        /\ Len(L) = 2 => (L[2].path = <<"user", "signin">> /\ ~YieldsSession(L[1].resp))
        /\ \A k \in 1..Len(L) : YieldsSession(L[k].resp) => k = Len(L)

\* the first endpoint failed, the second gave the session
C3_Witness ==
    /\ Len(LoginReqs) = 2
    /\ ~Is2xx(LoginReqs[1].resp.status)
    /\ YieldsSession(LoginReqs[2].resp)
    /\ client.present /\ client.v2

-----------------------------------------------------------------------------
(* C4 *)

LoginExhausted ==
    /\ LoginReqs # <<>>
    /\ \A k \in 1..Len(LoginReqs) : ~YieldsSession(LoginReqs[k].resp)

LoginReportText == "V2 login failed (all endpoints tried)"

LoginReports ==
    {i \in 1..Len(stderr) :
        IsJsonError(stderr[i]) /\ stderr[i].payload.error.text = LoginReportText}

\* the HTTP error recorded last: that of the last endpoint that answered
\* with an HTTP error, None when none did
LastHttpError ==
    LET errs == {k \in 1..Len(LoginReqs) : ~Is2xx(LoginReqs[k].resp.status)}
    IN  IF errs = {} THEN NoErr
        ELSE LET k == CHOOSE m \in errs : \A n \in errs : n <= m
             IN  [code |-> LoginReqs[k].resp.status, body |-> LoginReqs[k].resp.text]

\* C4 (amended): when no login endpoint yields a session, the process ends
\* with status 1 and exactly one login-failure report, and the report
\* carries the last HTTP error recorded: the error of the last endpoint that
\* answered with an HTTP error, or None when every endpoint answered 2xx
\* without a token.
C4_LoginFailureReport ==
    LoginExhausted =>
        /\ Len(LoginReqs) = 2
        /\ exit_code = 1 /\ pc = "exited"
        /\ Cardinality(LoginReports) = 1
        /\ stderr[Len(stderr)] = ErrorLine(LoginReportText, LastHttpError)

\* C4 as stated: the report references the error of the last endpoint attempted
C4_AsStated ==
    LoginExhausted =>
        /\ exit_code = 1 /\ pc = "exited"
        /\ Cardinality(LoginReports) = 1
        /\ stderr[Len(stderr)].payload.error.err.code
               = LoginReqs[Len(LoginReqs)].resp.status

\* signon answers 401, signin answers 200 without a token: the report shows the 401
C4_Witness ==
    /\ Len(LoginReqs) = 2
    /\ LoginReqs[1].resp.status = 401
    /\ Is2xx(LoginReqs[2].resp.status) /\ ~YieldsSession(LoginReqs[2].resp)
    /\ exit_code = 1
    /\ stderr = <<ErrorLine(LoginReportText, [code |-> 401, body |-> "error"])>>

-----------------------------------------------------------------------------
(* C5 *)

NoCredentials ==
    /\ Falsy(environ.TICKTICK_ACCESS_TOKEN)
    /\ Falsy(environ.TICKTICK_USERNAME) \/ Falsy(environ.TICKTICK_PASSWORD)

\* a dispatcher construction was attempted (every call but a bare command line)
ConstructionAttempted == calls # <<>> /\ calls[1].op # NoneV

\* C5: constructing the dispatcher with no access token and with the
\* username/password pair absent or incomplete (either missing or empty)
\* ends the process with status 1 and one configuration error, and no HTTP
\* request of any kind has been sent.
C5_NoCredentialsNoRequest ==
    (ConstructionAttempted /\ NoCredentials) =>
        /\ requests = <<>>
        /\ exit_code = 1 /\ pc = "exited"
        /\ ~client.present
        /\ stdout = <<>>
        /\ stderr = <<ErrorLine("need V1 token or V2 username+password", NoErr)>>

\* an empty token, a username and no password
C5_Witness ==
    /\ ConstructionAttempted
    /\ environ.TICKTICK_ACCESS_TOKEN = ""
    /\ environ.TICKTICK_USERNAME = "secret"
    /\ environ.TICKTICK_PASSWORD = NoneV
    /\ exit_code = 1 /\ requests = <<>>

-----------------------------------------------------------------------------
(* C6 *)

AllOfficial(rs) == rs # <<>> /\ \A i \in 1..Len(rs) : rs[i].api = "v1"
OneSync(rs) == Len(rs) = 1 /\ IsSync(rs[1])
NoSync(rs) == \A i \in 1..Len(rs) : ~IsSync(rs[i])

IsListing(c) == IsListProjects(c) \/ IsListTasks(c)

\* the listings that ask the official interface first: the project list,
\* and the tasks of one given project
OfficialFirst(c) == IsListProjects(c) \/ (IsListTasks(c) /\ ~Falsy(Scope(c)))

\* C6 (amended): project listing and task listing scoped to a project use
\* the official interface whenever it is available and an internal-interface
\* sync only when it is not; task listing without a scope uses a sync
\* whenever the internal interface is available, also when the official one
\* is, and enumerates through the official interface only when the internal
\* interface is unavailable.
C6_ListingBackend ==
    (Dispatched /\ IsListing(LastCall)) =>
    LET c  == LastCall
        rs == OpReqs(Len(calls))
    IN  IF OfficialFirst(c)
        THEN IF client.v1 THEN AllOfficial(rs) /\ NoSync(rs) ELSE OneSync(rs)
        ELSE IF client.v2 THEN OneSync(rs) ELSE AllOfficial(rs) /\ NoSync(rs)

\* C6 as stated: every listing uses the official interface whenever it is
\* available and syncs only when it is not
C6_AsStated ==
    (Dispatched /\ IsListing(LastCall)) =>
    LET rs == OpReqs(Len(calls))
    IN  IF client.v1 THEN AllOfficial(rs) /\ NoSync(rs) ELSE OneSync(rs)

\* both credential sets, no scope: the task listing is one sync
C6_Witness ==
    /\ Dispatched /\ client.v1 /\ client.v2
    /\ IsListTasks(LastCall) /\ Falsy(Scope(LastCall))
    /\ OneSync(OpReqs(Len(calls)))
    /\ Is2xx(OpReqs(Len(calls))[1].resp.status)

-----------------------------------------------------------------------------
(* C7 *)

NeedsOfficial ==
    {"get_project", "get_project_data", "create_project", "update_project",
     "delete_project", "get_task", "create_task", "update_task", "complete_task",
     "delete_task"}

NeedsInternal ==
    {"search_tasks", "get_completed_tasks", "list_tags", "create_tag", "sync",
     "upload_attachment"}

\* the dispatcher operation a call invokes, NoneV when it invokes none of
\* those with a requirement (project-update without a field stops before)
Operation(c) ==
    IF ~c.cli THEN c.op
    ELSE CASE c.op = "project-get"    -> "get_project_data"
           [] c.op = "project-create" -> "create_project"
           [] c.op = "project-update" ->
                  IF DOMAIN project_update_kwargs(c.args) = {} THEN NoneV
                  ELSE "update_project"
           [] c.op = "project-delete" -> "delete_project"
           [] c.op = "task-get"       -> "get_task"
           [] c.op = "task-create"    -> "create_task"
           [] c.op = "task-update"    -> "update_task"
           [] c.op = "task-complete"  -> "complete_task"
           [] c.op = "task-delete"    -> "delete_task"
           [] c.op = "search"         -> "search_tasks"
           [] c.op = "completed"      -> "get_completed_tasks"
           [] c.op = "tags"           -> "list_tags"
           [] c.op = "tag-create"     -> "create_tag"
           [] c.op = "sync"           -> "sync"
           [] OTHER -> NoneV

CapabilityText(op) ==
    CASE op = "search_tasks"         -> "search needs V2"
      [] op = "get_completed_tasks"  -> "completed needs V2"
      [] op = "list_tags"            -> "tags needs V2"
      [] op = "create_tag"           -> "tag-create needs V2"
      [] op = "sync"                 -> "sync needs V2"
      [] op = "upload_attachment"    -> "upload-attachment needs V2"
      [] op = "get_project"          -> "get_project needs V1"
      [] op = "get_project_data"     -> "get_project_data needs V1"
      [] op = "create_project"       -> "create_project needs V1"
      [] op = "update_project"       -> "update_project needs V1"
      [] op = "delete_project"       -> "delete_project needs V1"
      [] op = "get_task"             -> "get_task needs V1"
      [] op = "create_task"          -> "create_task needs V1"
      [] op = "update_task"          -> "update_task needs V1"
      [] op = "complete_task"        -> "complete_task needs V1"
      [] op = "delete_task"          -> "delete_task needs V1"

InterfaceMissing ==
    /\ Dispatched
    /\ \/ Operation(LastCall) \in NeedsOfficial /\ ~client.v1
       \/ Operation(LastCall) \in NeedsInternal /\ ~client.v2

\* C7: a dispatcher operation invoked without the interface it requires
\* (the official client for project get/data/create/update/delete and task
\* get/create/update/complete/delete, the internal client for search,
\* completed tasks, tag list/create, sync and upload) writes its
\* capability-mismatch error, ends the process with status 1 and sends no
\* request.
C7_CapabilityMismatch ==
    InterfaceMissing =>
        /\ OpReqs(Len(calls)) = <<>>
        /\ exit_code = 1 /\ pc = "exited"
        /\ stderr # <<>>
        /\ stderr[Len(stderr)] = ErrorLine(CapabilityText(Operation(LastCall)), NoErr)
        /\ stdout = <<>>

\* delete_project on a dispatcher that has only the internal client
C7_Witness ==
    /\ InterfaceMissing
    /\ Operation(LastCall) = "delete_project"
    /\ client.v2
    /\ exit_code = 1

-----------------------------------------------------------------------------
(* C8 *)

\* request j is a per-project fetch of a task listing without a scope
PerProjectFetch(j) ==
    LET c == calls[CallOf(j)]
    IN  /\ IsListTasks(c) /\ Falsy(Scope(c))
        /\ Len(requests[j].path) = 3 /\ requests[j].path[3] = "data"

FatalOfficialFailure(j) ==
    /\ requests[j].api = "v1"
    /\ ~Is2xx(requests[j].resp.status)
    /\ ~PerProjectFetch(j)

\* C8: an official-interface request, other than a per-project fetch of an
\* unscoped task listing, that is answered non-2xx is the last request the
\* process sends (it is not re-issued and nothing follows it; a failed GET
\* of update_task is not followed by the POST); the process writes the
\* error with the status code and raw body and exits with status 1.
C8_OfficialFailureIsFatal ==
    \A j \in 1..Len(requests) :
        FatalOfficialFailure(j) =>
            /\ j = Len(requests)
            /\ exit_code = 1 /\ pc = "exited"
            /\ stderr # <<>>
            /\ stderr[Len(stderr)] =
                   ErrorLine("V1 API error",
                             [code |-> requests[j].resp.status,
                              body |-> requests[j].resp.text])
            /\ stdout = <<>>

\* the GET of update_task was refused: no POST follows
C8_Witness ==
    /\ calls # <<>> /\ IsUpdateCall(LastCall)
    /\ requests # <<>>
    /\ FatalOfficialFailure(Len(requests))
    /\ requests[Len(requests)].method = "GET"
    /\ exit_code = 1

-----------------------------------------------------------------------------
(* C9 *)

IsSubcommand == calls # <<>> /\ calls[1].cli /\ calls[1].op \in Commands

\* C9 as stated: on every error path of a subcommand the error stream
\* holds JSON objects with success false and a message and nothing else,
\* standard output holds no result document and the exit code is 1; a
\* result document is on standard output only when every remote call of the
\* subcommand's operation succeeded.
C9_AsStated ==
    IsSubcommand =>
        /\ exit_code # 0 =>
             /\ stderr # <<>>
             /\ \A i \in 1..Len(stderr) : IsJsonError(stderr[i])
             /\ stdout = <<>>
             /\ exit_code = 1
        /\ stdout # <<>> =>
             \A i \in 1..Len(OpReqs(1)) : Is2xx(OpReqs(1)[i].resp.status)

\* project-update without --name and --color: one line of plain text on
\* the error stream
C9_Witness ==
    /\ IsSubcommand /\ calls[1].op = "project-update"
    /\ exit_code = 1
    /\ Len(stderr) = 1 /\ stderr[1].format = "text"
    /\ stdout = <<>>

-----------------------------------------------------------------------------
(* C10 *)

\* the requests the internal-interface client sends once it is constructed
AfterLogin(r) == r.api \in {"v2", "upload"} /\ ~IsLogin(r)

CarriesSession(r) ==
    /\ "Cookie" \in DOMAIN r.headers
    /\ \E i \in 1..Len(r.headers.Cookie) :
           r.headers.Cookie[i] = [name |-> "t", value |-> v2.session_token]

\* C10: once the internal-interface client is constructed its session token
\* is non-empty, and every request it sends from then on (sync, completed
\* tasks, batch task/tag, settings, profile, upload) has that token in its
\* Cookie header.
C10_SessionCookie ==
    /\ (client.present /\ client.v2) => ~Falsy(v2.session_token)
    /\ \A j \in 1..Len(requests) :
           AfterLogin(requests[j]) =>
               /\ client.present /\ client.v2
               /\ CarriesSession(requests[j])

\* an upload and a sync request went out with the session cookie
C10_Witness ==
    /\ client.present /\ client.v2
    /\ \E j \in 1..Len(requests) :
           /\ requests[j].api = "upload" \/ IsSync(requests[j])
           /\ CarriesSession(requests[j])
           /\ Is2xx(requests[j].resp.status)

-----------------------------------------------------------------------------
(* C11 *)

IsUpload(r) == r.api = "upload"

CarriesCsrf(r) ==
    /\ ~Falsy(v2.csrf_token)
    /\ "xcsrftoken" \in DOMAIN r.headers
    /\ r.headers.xcsrftoken = v2.csrf_token
    /\ "Cookie" \in DOMAIN r.headers
    /\ r.headers.Cookie = <<[name |-> "t", value |-> v2.session_token],
                            [name |-> "_csrf_token", value |-> v2.csrf_token]>>

\* C11 as stated: every attachment-upload request that is sent carries the
\* CSRF token obtained at login in the x-csrftoken header and, combined
\* with the session token, in the Cookie value; none is sent without one.
C11_AsStated ==
    \A j \in 1..Len(requests) : IsUpload(requests[j]) => CarriesCsrf(requests[j])

\* the login answer set no _csrf_token cookie, and an upload went out with
\* the session cookie alone and no x-csrftoken header
C11_Witness ==
    /\ client.present /\ client.v2
    /\ Falsy(v2.csrf_token)
    /\ \E j \in 1..Len(requests) :
           /\ IsUpload(requests[j])
           /\ "xcsrftoken" \notin DOMAIN requests[j].headers
           /\ requests[j].headers.Cookie = <<[name |-> "t", value |-> v2.session_token]>>

-----------------------------------------------------------------------------
(* C12 *)

\* the capital letters that occur, each with its lowercase letter
UpperLower == {<<"A", "a">>, <<"K", "k">>, <<"W", "w">>}

IsLowercaseOf(y, x) ==
    \/ <<x, y>> \in UpperLower
    \/ x = y /\ \A p \in UpperLower : p[1] # x

IsCreateTag(c) == c.op \in {"create_tag", "tag-create"}

\* C12: create_tag, for the caller's name (and optional color and parent),
\* sends one batch request that adds exactly one tag and updates and deletes
\* none; the tag's internal name is the caller's name lowercased letter by
\* letter and its display label is the caller's name unchanged.
C12_TagNameLowercased ==
    (Dispatched /\ client.v2 /\ IsCreateTag(LastCall)) =>
    LET rs   == OpReqs(Len(calls))
        name == LastCall.args.name
    IN  /\ Len(rs) = 1
        /\ rs[1].method = "POST" /\ rs[1].path = <<"batch", "tag">>
        /\ rs[1].body # <<>>
        /\ DOMAIN rs[1].body[1] = {"add"}
        /\ Len(rs[1].body[1].add) = 1
        /\ LET tag == rs[1].body[1].add[1]
           IN  /\ tag.label = name
               /\ Len(tag.name) = Len(name)
               /\ \A i \in 1..Len(name) : IsLowercaseOf(tag.name[i], name[i])

\* the name "Wk" was submitted as name "wk" with label "Wk"
C12_Witness ==
    /\ Dispatched /\ client.v2 /\ IsCreateTag(LastCall)
    /\ LastCall.args.name = <<"W", "k">>
    /\ Len(OpReqs(Len(calls))) = 1
    /\ Is2xx(OpReqs(Len(calls))[1].resp.status)
    /\ OpReqs(Len(calls))[1].body[1].add[1].name = <<"w", "k">>
    /\ OpReqs(Len(calls))[1].body[1].add[1].label = <<"W", "k">>

-----------------------------------------------------------------------------
(* C13 *)

PriorityStrings == {"none", "low", "medium", "high"}
PriorityOrdinals == {0, 1, 3, 5}

\* the ordinal the specification gives each priority string
Ordinal(p) ==
    CASE p = "none" -> 0 [] p = "low" -> 1 [] p = "medium" -> 3 [] p = "high" -> 5

\* a task-create or task-update command line that gives --priority
GivesPriority(c) ==
    c.cli /\ c.op \in {"task-create", "task-update"} /\ ~Falsy(c.args.priority)

\* C13: the priority table sends none, low, medium, high to 0, 1, 3, 5 and
\* the reverse table sends 0, 1, 3, 5 back to them: reverse(forward(s)) = s
\* for each of the four strings and forward(reverse(n)) = n for each of the
\* four ordinals; a task submitted by a command line that gives --priority
\* carries the ordinal of that string.
C13_PriorityTables ==
    /\ DOMAIN PRIORITY_MAP = PriorityStrings
    /\ DOMAIN PRIORITY_REVERSE = PriorityOrdinals
    /\ \A p \in PriorityStrings :
           PRIORITY_MAP[p] = Ordinal(p) /\ PRIORITY_REVERSE[PRIORITY_MAP[p]] = p
    /\ \A n \in PriorityOrdinals : PRIORITY_MAP[PRIORITY_REVERSE[n]] = n
    /\ (calls # <<>> /\ GivesPriority(LastCall)) =>
           LET rs == OpReqs(Len(calls))
           IN  \A i \in 1..Len(rs) :
                   rs[i].method = "POST" =>
                       /\ rs[i].body[1].priority = Ordinal(LastCall.args.priority)
                       /\ PRIORITY_REVERSE[rs[i].body[1].priority]
                              = LastCall.args.priority

\* task-update --priority medium submitted a task with priority 3
C13_Witness ==
    /\ calls # <<>> /\ GivesPriority(LastCall)
    /\ LastCall.args.priority = "medium"
    /\ \E i \in 1..Len(OpReqs(Len(calls))) :
           /\ OpReqs(Len(calls))[i].method = "POST"
           /\ OpReqs(Len(calls))[i].body[1].priority = 3
           /\ Is2xx(OpReqs(Len(calls))[i].resp.status)

-----------------------------------------------------------------------------
(* C14 *)

DigitValue(c) == CHOOSE d \in 0..15 : HexDigits[d + 1] = c

RECURSIVE HexValue(_)
HexValue(digits) ==
    IF digits = <<>> THEN 0
    ELSE 16 * HexValue(SubSeq(digits, 1, Len(digits) - 1))
             + DigitValue(digits[Len(digits)])

IsLowerHex(id) == \A k \in 1..Len(id) : \E d \in 1..16 : HexDigits[d] = id[k]

\* the attachment identifier in the path of an upload request
AttachmentId(r) == r.path[5]

\* the eight characters encode the seconds count t
EncodesTime(prefix, t) ==
    /\ Len(prefix) = 8
    /\ HexValue(SubSeq(prefix, 1, 4)) = t.hi
    /\ HexValue(SubSeq(prefix, 5, 8)) = t.lo

\* C14 as stated: for every call time, the attachment identifier built by
\* upload_attachment is exactly 24 lowercase hexadecimal characters and its
\* first 8 characters are the hexadecimal encoding of the Unix timestamp, in
\* seconds, at the time of the call.
C14_AsStated ==
    \A j \in 1..Len(requests) :
        IsUpload(requests[j]) =>
            /\ Len(AttachmentId(requests[j])) = 24
            /\ IsLowerHex(AttachmentId(requests[j]))
            /\ EncodesTime(SubSeq(AttachmentId(requests[j]), 1, 8),
                           calls[CallOf(j)].now)

\* an upload at 4294967296 seconds (2106-02-07) was sent with an identifier of
\* 25 characters whose first nine are 100000000
C14_Witness ==
    \E j \in 1..Len(requests) :
        /\ IsUpload(requests[j])
        /\ calls[CallOf(j)].now = [hi |-> 65536, lo |-> 0]
        /\ Len(AttachmentId(requests[j])) = 25
        /\ SubSeq(AttachmentId(requests[j]), 1, 9)
               = <<"1", "0", "0", "0", "0", "0", "0", "0", "0">>

\* below 2^32 seconds the identifier has the stated form
C14_Before2106 ==
    \A j \in 1..Len(requests) :
        (IsUpload(requests[j]) /\ calls[CallOf(j)].now.hi < 65536) =>
            /\ Len(AttachmentId(requests[j])) = 24
            /\ IsLowerHex(AttachmentId(requests[j]))
            /\ EncodesTime(SubSeq(AttachmentId(requests[j]), 1, 8),
                           calls[CallOf(j)].now)

-----------------------------------------------------------------------------
(* C15 *)

\* the 2xx answers of the login handshake: _login assigns session_token from
\* each of them
AnsweredLogins == SelectSeq(LoginReqs, LAMBDA r : Is2xx(r.resp.status))

\* the _csrf_token cookies of a response: _login assigns csrf_token from each
CsrfOf(resp) == SelectSeq(resp.set_cookie, LAMBDA c : c.name = "_csrf_token")

RECURSIVE CsrfAssignments(_)
CsrfAssignments(rs) ==
    IF rs = <<>> THEN 0
    ELSE Len(CsrfOf(Head(rs).resp)) + CsrfAssignments(Tail(rs))

\* login has completed: the dispatcher holds a logged-in internal client
LoggedIn == client.present /\ client.v2 /\ ~Falsy(v2.session_token)

\* the login answer that established the session
Establishing == LoginReqs[Len(LoginReqs)].resp

C15_AssignedOnce ==
    v2.present => Len(AnsweredLogins) <= 1 /\ CsrfAssignments(AnsweredLogins) <= 1

C15_FromOneResponse ==
    LoggedIn =>
        /\ YieldsSession(Establishing)
        /\ v2.session_token = Establishing.body[1].token
        /\ v2.csrf_token = csrf_from_cookies(Establishing.set_cookie, NoneV)

C15_Frozen ==
    LoggedIn =>
        /\ v2'.session_token = v2.session_token
        /\ v2'.csrf_token = v2.csrf_token

\* C15 as stated: the session token and the CSRF token of the internal client
\* are each assigned at most once during the login handshake, both come from
\* the one login response that established the session, and no operation
\* after login modifies either.
C15_AsStated ==
    /\ [](C15_AssignedOnce /\ C15_FromOneResponse)
    /\ [][C15_Frozen]_vars

\* /user/signon answered 200 without a token but with a _csrf_token cookie,
\* /user/signin answered 200 with the token and no cookie: session_token was
\* assigned twice and csrf_token is the cookie of the answer that did not
\* establish the session
C15_Witness ==
    /\ LoggedIn
    /\ Len(AnsweredLogins) = 2
    /\ ~YieldsSession(LoginReqs[1].resp)
    /\ CsrfOf(Establishing) = <<>>
    /\ v2.csrf_token = CsrfOf(LoginReqs[1].resp)[1].value

\* what does hold: the session token is that of the establishing answer and
\* no operation after login modifies either token
C15_SessionFromEstablishing ==
    LoggedIn =>
        YieldsSession(Establishing) /\ v2.session_token = Establishing.body[1].token

C15_FrozenAfterLogin == [][C15_Frozen]_vars

-----------------------------------------------------------------------------
(* C16 *)

\* an unscoped listing through the official interface alone whose project
\* list was obtained
V1Enumeration ==
    /\ V1OnlyUnscopedListing
    /\ OpReqs(Len(calls)) # <<>>
    /\ Is2xx(OpReqs(Len(calls))[1].resp.status)

\* the per-project fetches of the listing that were refused
FailedFetches ==
    SelectSeq(Tail(OpReqs(Len(calls))), LAMBDA r : ~Is2xx(r.resp.status))

\* the exit status of a listing in which every fetch succeeded
CleanListingStatus == IF LastCall.cli THEN 0 ELSE Running

\* C16 as stated: during an unscoped task listing with only the official
\* interface, a project whose fetch fails is skipped silently: nothing is
\* written to the error stream for it, and the exit status of the listing is
\* that of a listing in which every fetch succeeded.
C16_AsStated ==
    V1Enumeration => stderr = <<>> /\ exit_code = CleanListingStatus

\* a fetch was refused, the listing went on and ended with the status of a
\* clean listing, and the error stream holds the JSON error of the refusal
C16_Witness ==
    /\ V1Enumeration
    /\ Len(FailedFetches) = 1
    /\ exit_code = CleanListingStatus
    /\ stderr = <<ErrorLine("V1 API error",
                            [code |-> FailedFetches[1].resp.status,
                             body |-> FailedFetches[1].resp.text])>>

\* what does hold: the exit status is that of a clean listing, and the error
\* stream holds one JSON error per refused fetch
C16_OneDiagnosticPerFailure ==
    V1Enumeration =>
        /\ exit_code = CleanListingStatus
        /\ Len(stderr) = Len(FailedFetches)
        /\ \A k \in 1..Len(stderr) : IsJsonError(stderr[k])

-----------------------------------------------------------------------------
(* C17 *)

BothCredentials ==
    /\ ~Falsy(environ.TICKTICK_ACCESS_TOKEN)
    /\ ~Falsy(environ.TICKTICK_USERNAME)
    /\ ~Falsy(environ.TICKTICK_PASSWORD)

\* C17: when a token and a username/password pair are both supplied,
\* constructing the dispatcher logs in to the internal interface before any
\* operation runs: the login requests come first in the request log and every
\* other request follows a login answer that gave a session; when the login
\* fails the process ends with status 1 and no official-interface request
\* (nor any other operation request) is ever sent, whatever operation was
\* invoked.
C17_LoginBeforeOperations ==
    (BothCredentials /\ ConstructionAttempted) =>
        /\ requests # <<>> /\ IsLogin(requests[1])
        /\ \A j \in 1..Len(requests) :
               ~IsLogin(requests[j]) =>
                   /\ \A k \in j..Len(requests) : ~IsLogin(requests[k])
                   /\ \E k \in 1..(j - 1) : YieldsSession(requests[k].resp)
        /\ client.present => YieldsSession(LoginReqs[Len(LoginReqs)].resp)
        /\ LoginExhausted =>
               /\ exit_code = 1 /\ pc = "exited"
               /\ ~client.present
               /\ Len(calls) = 1
               /\ \A j \in 1..Len(requests) :
                      IsLogin(requests[j]) /\ requests[j].api # "v1"

\* `ticktick_cli.py projects`, which needs the official interface alone, with
\* both credentials and both login endpoints refusing: status 1 and only the
\* two login requests were sent
C17_Witness ==
    /\ BothCredentials /\ ConstructionAttempted
    /\ LastCall.cli /\ LastCall.op = "projects"
    /\ LoginExhausted
    /\ Len(requests) = 2
    /\ exit_code = 1

====
